---------------------------- MODULE Spec2Model ----------------------------
(***************************************************************************)
(* A model of the pure-TypeScript gzip codec of 1paying-kit                *)
(* (src/ts/1paying-kit/src/gzip.ts): bit I/O, CRC32, the fixed Huffman     *)
(* tables, the LZ77 tokenizer, the fixed-Huffman block encoder, the block  *)
(* decoder and the gzip container.                                         *)
(*                                                                         *)
(* Byte buffers are sequences of 0..255.  JavaScript indices are 0-based:  *)
(* position p of a buffer b is b[p + 1] here.  A thrown Error is a value   *)
(* of the field err ("" when nothing was thrown).                          *)
(***************************************************************************)
EXTENDS Integers, Sequences, FiniteSets, TLC

\* ------------------------------------------------------------------------
\* Bitwise operators of JavaScript.  Operands below 2^31 are plain numbers.
\* A full 32-bit value is a word <<hi, lo>> standing for hi * 65536 + lo with
\* lo in 0..65535: hi is in 0..65535 for an unsigned value (the result of
\* >>> 0) and in -32768..32767 for a signed one (the result of &, |, ^, <<).
\* ------------------------------------------------------------------------

Pow2(n) == 2 ^ n

\* TRUE for every x.  TLC evaluates an operator's argument where it is first
\* used; a loop that tests Now of its state first has the state computed
\* before the next pass starts, which keeps the evaluation of long loops
\* shallow.  It changes no value.
Now(x) == x = x

And4 ==
  [a \in 0..15 |-> [b \in 0..15 |->
     ((a % 2) * (b % 2))
     + 2 * (((a \div 2) % 2) * ((b \div 2) % 2))
     + 4 * (((a \div 4) % 2) * ((b \div 4) % 2))
     + 8 * ((a \div 8) * (b \div 8))]]

Xor4 ==
  [a \in 0..15 |-> [b \in 0..15 |->
     (((a % 2) + (b % 2)) % 2)
     + 2 * ((((a \div 2) % 2) + ((b \div 2) % 2)) % 2)
     + 4 * ((((a \div 4) % 2) + ((b \div 4) % 2)) % 2)
     + 8 * (((a \div 8) + (b \div 8)) % 2)]]

RECURSIVE BitAnd(_, _)
BitAnd(a, b) ==
  IF a = 0 \/ b = 0 THEN 0
  ELSE And4[a % 16][b % 16] + 16 * BitAnd(a \div 16, b \div 16)

RECURSIVE BitXor(_, _)
BitXor(a, b) ==
  IF a = 0 THEN b
  ELSE IF b = 0 THEN a
  ELSE Xor4[a % 16][b % 16] + 16 * BitXor(a \div 16, b \div 16)

\* a | b = (a ^ b) + (a & b)
BitOr(a, b) == BitXor(a, b) + BitAnd(a, b)

\* a << n for a >= 0 and n in 0..31: the low 32 bits of a * 2^n as a signed
\* 32-bit integer (bit 31 - n of a becomes the sign bit, higher bits are
\* lost).  It is a * 2^n wherever that is below 2^31.
Shl(a, n) ==
  IF n = 0 THEN a
  ELSE (IF n = 31 THEN 0 ELSE (a % Pow2(31 - n)) * Pow2(n))
         + (IF (a \div Pow2(31 - n)) % 2 = 1 THEN -2147483647 - 1 ELSE 0)

\* a >>> n: a negative a stands for the 32-bit pattern a + 2^32.  (For
\* n = 0 the pattern is kept in its signed reading.)
Shr(a, n) ==
  IF a >= 0 THEN a \div Pow2(n)
  ELSE IF n = 0 THEN a
  ELSE ((a \div Pow2(n)) + Pow2(31 - n)) + Pow2(31 - n)

\* a ^ b on words (the bit pattern, read unsigned)
XorW(a, b) == << BitXor(a[1], b[1]), BitXor(a[2], b[2]) >>

\* a >>> n on an unsigned word, for n in 0..16
ShrW(a, n) ==
  << a[1] \div Pow2(n), (a[2] \div Pow2(n)) + (a[1] % Pow2(n)) * Pow2(16 - n) >>

\* The unsigned reading of a word's low 32 bits: x >>> 0.
ToUint32(a) == << a[1] % 65536, a[2] >>

\* The signed reading of a word's low 32 bits: what x & 0xffffffff returns.
ToInt32(a) ==
  LET h == a[1] % 65536 IN << IF h >= 32768 THEN h - 65536 ELSE h, a[2] >>

\* A length or index as a word.
NumW(n) == << n \div 65536, n % 65536 >>

\* ------------------------------------------------------------------------
\* Constants
\* ------------------------------------------------------------------------

GZIP_ID1 == 31
GZIP_ID2 == 139
GZIP_CM_DEFLATE == 8

WINDOW_SIZE == 32768
MAX_MATCH == 258
MIN_MATCH == 3
MAX_CHAIN_HITS == 128

LENGTH_BASE ==
  << 3, 4, 5, 6, 7, 8, 9, 10, 11, 13, 15, 17, 19, 23, 27, 31, 35, 43, 51, 59,
     67, 83, 99, 115, 131, 163, 195, 227, 258 >>

LENGTH_EXTRA ==
  << 0, 0, 0, 0, 0, 0, 0, 0, 1, 1, 1, 1, 2, 2, 2, 2, 3, 3, 3, 3, 4, 4, 4, 4,
     5, 5, 5, 5, 0 >>

DIST_BASE ==
  << 1, 2, 3, 4, 5, 7, 9, 13, 17, 25, 33, 49, 65, 97, 129, 193, 257, 385, 513,
     769, 1025, 1537, 2049, 3073, 4097, 6145, 8193, 12289, 16385, 24577 >>

DIST_EXTRA ==
  << 0, 0, 0, 0, 1, 1, 2, 2, 3, 3, 4, 4, 5, 5, 6, 6, 7, 7, 8, 8, 9, 9, 10, 10,
     11, 11, 12, 12, 13, 13 >>

\* ------------------------------------------------------------------------
\* BitWriter
\* ------------------------------------------------------------------------

NewWriter == [byteBuffer |-> << >>, bitBuffer |-> 0, bitLength |-> 0]

RECURSIVE FlushBytes(_)
FlushBytes(w) ==
  IF w.bitLength >= 8
  THEN FlushBytes([byteBuffer |-> Append(w.byteBuffer, BitAnd(w.bitBuffer, 255)),
                   bitBuffer |-> Shr(w.bitBuffer, 8),
                   bitLength |-> w.bitLength - 8])
  ELSE w

\* writeBits without the mask: all of value goes into the accumulator.
writeBitsUnmasked(w, value, length) ==
  IF length = 0 THEN w
  ELSE FlushBytes([w EXCEPT
         !.bitBuffer = BitOr(w.bitBuffer, Shl(value, w.bitLength)),
         !.bitLength = w.bitLength + length])

writeBits(w, value, length) ==
  IF length = 0 THEN w
  ELSE LET mask == Shl(1, length) - 1
       IN FlushBytes([w EXCEPT
            !.bitBuffer = BitOr(w.bitBuffer, Shl(BitAnd(value, mask), w.bitLength)),
            !.bitLength = w.bitLength + length])

WriterAlignToByte(w) ==
  IF w.bitLength > 0
  THEN [byteBuffer |-> Append(w.byteBuffer, BitAnd(w.bitBuffer, 255)),
        bitBuffer |-> 0, bitLength |-> 0]
  ELSE w

toUint8Array(w) == WriterAlignToByte(w).byteBuffer

\* ------------------------------------------------------------------------
\* CRC32
\* ------------------------------------------------------------------------

\* 0xedb88320 and 0xffffffff
CrcPoly == << 60856, 33568 >>
AllOnes == << 65535, 65535 >>

RECURSIVE CrcEntry(_, _)
CrcEntry(c, j) ==
  IF j = 0 THEN c
  ELSE IF BitAnd(c[2], 1) # 0
       THEN CrcEntry(XorW(CrcPoly, ShrW(c, 1)), j - 1)
       ELSE CrcEntry(ShrW(c, 1), j - 1)

crcTable == [i \in 0..255 |-> CrcEntry(<< 0, i >>, 8)]

CrcByte(crc, byte) ==
  XorW(crcTable[BitAnd(BitXor(crc[2], byte), 255)], ShrW(crc, 8))

\* The loop of crc32 over data[i], i = from .. from + count - 1, in that
\* order.  The range is split in halves only to keep the evaluation shallow.
RECURSIVE CrcLoop(_, _, _, _)
CrcLoop(data, from, count, crc) ==
  IF Now(crc) /\ count = 0 THEN crc
  ELSE IF count = 1 THEN CrcByte(crc, data[from + 1])
  ELSE LET h == count \div 2
       IN CrcLoop(data, from + h, count - h, CrcLoop(data, from, h, crc))

crc32(data) == ToUint32(XorW(CrcLoop(data, 0, Len(data), AllOnes), AllOnes))

\* ------------------------------------------------------------------------
\* Fixed Huffman tables
\* ------------------------------------------------------------------------

FIXED_LITERAL_MAX_BITS == 9
FIXED_LITERAL_SHORT_BITS == 7

RECURSIVE ReverseLoop(_, _, _)
ReverseLoop(value, width, out) ==
  IF width = 0 THEN out
  ELSE ReverseLoop(Shr(value, 1), width - 1, BitOr(Shl(out, 1), BitAnd(value, 1)))

reverseBits(value, width) == ReverseLoop(value, width, 0)

fixedLiteralLengths ==
  [s \in 0..287 |->
     IF s <= 143 THEN 8 ELSE IF s <= 255 THEN 9 ELSE IF s <= 279 THEN 7 ELSE 8]

fixedLiteralCodes ==
  [s \in 0..287 |->
     IF s <= 143 THEN reverseBits(48 + s, 8)
     ELSE IF s <= 255 THEN reverseBits(400 + (s - 144), 9)
     ELSE IF s <= 279 THEN reverseBits(s - 256, 7)
     ELSE reverseBits(192 + (s - 280), 8)]

fixedDistanceCodes == [i \in 0..31 |-> reverseBits(i, 5)]

\* The symbols whose fill loop writes slot index of a table `bits` wide:
\* index = codeVal | (i << len) for some i < 1 << (bits - len).
SlotWriters(index, bits) ==
  {s \in 0..287 : /\ fixedLiteralLengths[s] <= bits
                  /\ index % Pow2(fixedLiteralLengths[s]) = fixedLiteralCodes[s]}

MaxOf(S) == CHOOSE m \in S : \A o \in S : o <= m

\* Symbols are written in increasing order, so the last write to a slot wins;
\* a slot never written keeps the typed array's initial 0.
fixedLiteralDecode ==
  [index \in 0..511 |->
     LET W == SlotWriters(index, FIXED_LITERAL_MAX_BITS)
     IN IF W = {} THEN 0 ELSE MaxOf(W)]

fixedLiteralDecodeLength ==
  [index \in 0..511 |->
     LET W == SlotWriters(index, FIXED_LITERAL_MAX_BITS)
     IN IF W = {} THEN 0 ELSE fixedLiteralLengths[MaxOf(W)]]

\* A short table marked filled in every slot.
fixedLiteralShortLengthFull == [index \in 0..127 |-> FIXED_LITERAL_SHORT_BITS]

\* The short table is first filled with -1 / 0.
fixedLiteralShortDecode ==
  [index \in 0..127 |->
     LET W == SlotWriters(index, FIXED_LITERAL_SHORT_BITS)
     IN IF W = {} THEN -1 ELSE MaxOf(W)]

fixedLiteralShortLength ==
  [index \in 0..127 |->
     LET W == SlotWriters(index, FIXED_LITERAL_SHORT_BITS)
     IN IF W = {} THEN 0 ELSE fixedLiteralLengths[MaxOf(W)]]

fixedDistanceDecode ==
  [bits \in 0..31 |-> CHOOSE i \in 0..31 : reverseBits(i, 5) = bits]

fixedDistanceDecodeLength == [bits \in 0..31 |-> 5]

\* ------------------------------------------------------------------------
\* Length and distance codes
\* ------------------------------------------------------------------------

\* What findLengthCode and findDistanceCode return: [code, base, extraBits],
\* with err the message of the Error thrown instead ("" for none).  The code's
\* messages go on with a colon and the number; err holds the part before it.
NoCode == [code |-> -1, base |-> 0, extraBits |-> 0, err |-> ""]

\* LengthCodeLoop with the test length > base for length >= base.
RECURSIVE LengthCodeLoopOpen(_, _)
LengthCodeLoopOpen(length, i) ==
  IF i >= Len(LENGTH_BASE) - 1
  THEN [NoCode EXCEPT !.err = "Invalid match length"]
  ELSE IF length > LENGTH_BASE[i + 1]
          /\ length <= LENGTH_BASE[i + 1] + Shl(1, LENGTH_EXTRA[i + 1]) - 1
       THEN [code |-> 257 + i, base |-> LENGTH_BASE[i + 1],
             extraBits |-> LENGTH_EXTRA[i + 1], err |-> ""]
       ELSE LengthCodeLoopOpen(length, i + 1)

RECURSIVE LengthCodeLoop(_, _)
LengthCodeLoop(length, i) ==
  IF i >= Len(LENGTH_BASE) - 1
  THEN [NoCode EXCEPT !.err = "Invalid match length"]
  ELSE LET base == LENGTH_BASE[i + 1]
           extra == LENGTH_EXTRA[i + 1]
           max == base + Shl(1, extra) - 1
       IN IF length >= base /\ length <= max
          THEN [code |-> 257 + i, base |-> base, extraBits |-> extra, err |-> ""]
          ELSE LengthCodeLoop(length, i + 1)

findLengthCode(length) ==
  IF length = 258
  THEN [code |-> 285, base |-> 258, extraBits |-> 0, err |-> ""]
  ELSE LengthCodeLoop(length, 0)

\* DistanceCodeLoop with a range one distance too wide.
RECURSIVE DistanceCodeLoopWide(_, _)
DistanceCodeLoopWide(distance, i) ==
  IF i >= Len(DIST_BASE)
  THEN [NoCode EXCEPT !.err = "Invalid match distance"]
  ELSE LET base == DIST_BASE[i + 1]
           extra == DIST_EXTRA[i + 1]
           max == base + Shl(1, extra)
       IN IF distance >= base /\ distance <= max
          THEN [code |-> i, base |-> base, extraBits |-> extra, err |-> ""]
          ELSE DistanceCodeLoopWide(distance, i + 1)

RECURSIVE DistanceCodeLoop(_, _)
DistanceCodeLoop(distance, i) ==
  IF i >= Len(DIST_BASE)
  THEN [NoCode EXCEPT !.err = "Invalid match distance"]
  ELSE LET base == DIST_BASE[i + 1]
           extra == DIST_EXTRA[i + 1]
           max == base + Shl(1, extra) - 1
       IN IF distance >= base /\ distance <= max
          THEN [code |-> i, base |-> base, extraBits |-> extra, err |-> ""]
          ELSE DistanceCodeLoop(distance, i + 1)

findDistanceCode(distance) == DistanceCodeLoop(distance, 0)

\* ------------------------------------------------------------------------
\* LZ77 tokenizer (collectTokens).  The tokenizer's state is the record
\* [position, tokens, head, prev]: head is the Map from key to the most
\* recent position, prev the Int32Array of earlier positions (0-based
\* positions, -1 for none; prev[p] is prev[p + 1] here).
\* ------------------------------------------------------------------------

Literal(v) == [type |-> "literal", value |-> v, length |-> 0, distance |-> 0]
Match(l, d) == [type |-> "match", value |-> 0, length |-> l, distance |-> d]

hashableLimit(data) == Len(data) - (MIN_MATCH - 1)

computeKey(data, position) ==
  BitOr(BitOr(Shl(data[position + 1], 16), Shl(data[position + 2], 8)),
        data[position + 3])

\* head.get(key) ?? -1, head.set(key, position), head.delete(key)
HeadGet(head, key) == IF key \in DOMAIN head THEN head[key] ELSE -1
HeadSet(head, key, position) == (key :> position) @@ head
HeadDelete(head, key) == [k \in DOMAIN head \ {key} |-> head[k]]

RECURSIVE PruneWalk(_, _, _)
PruneWalk(prev, node, position) ==
  IF node # -1 /\ position - node > WINDOW_SIZE
  THEN PruneWalk(prev, prev[node + 1], position)
  ELSE node

\* pruneHead after its while loop, which ended at node.
PruneEnd(head, key, node) ==
  [node |-> node,
   head |-> IF node = -1 THEN HeadDelete(head, key) ELSE HeadSet(head, key, node)]

\* Returns the surviving node and the head map as pruneHead leaves it.
pruneHead(head, prev, key, position) ==
  PruneEnd(head, key, PruneWalk(prev, HeadGet(head, key), position))

\* insertPosition after pruneHead returned pr.
LinkPosition(st, key, position, pr) ==
  [st EXCEPT !.prev = [st.prev EXCEPT ![position + 1] = pr.node],
             !.head = HeadSet(pr.head, key, position)]

\* insertPosition from the computation of the key on.
InsertKey(st, key, position) ==
  LinkPosition(st, key, position, pruneHead(st.head, st.prev, key, position))

insertPosition(data, st, position) ==
  IF position >= hashableLimit(data) THEN st
  ELSE InsertKey(st, computeKey(data, position), position)

\* The inner while loop of findBestMatch: from length lo, the first length
\* below hi at which the bytes differ, else hi.  The range is split in halves
\* only to keep the evaluation shallow.
RECURSIVE ExtendMatch(_, _, _, _, _)
ExtendMatch(data, position, candidate, lo, hi) ==
  IF lo >= hi THEN lo
  ELSE IF hi = lo + 1
       THEN IF data[position + lo + 1] = data[candidate + lo + 1] THEN hi ELSE lo
  ELSE LET mid == (lo + hi) \div 2
           l == ExtendMatch(data, position, candidate, lo, mid)
       IN IF l < mid THEN l ELSE ExtendMatch(data, position, candidate, mid, hi)

\* One pass through the candidate loop of findBestMatch.  The loop's state
\* is [candidate, bestLength, bestDistance, attempts, done]; done is set when
\* the loop condition fails or a break is taken.
\* NextCandidate counting only every second candidate.
NextCandidateHalf(prev, c) ==
  [c EXCEPT !.candidate = prev[c.candidate + 1],
            !.attempts = c.attempts + (c.candidate % 2)]

\* candidate = prev[candidate]; attempts += 1
NextCandidate(prev, c) ==
  [c EXCEPT !.candidate = prev[c.candidate + 1], !.attempts = c.attempts + 1]

\* The pass from `if (length > bestLength)` on.
TakeLength(prev, position, c, length) ==
  IF length > c.bestLength
  THEN IF length >= MAX_MATCH
       THEN [c EXCEPT !.bestLength = length,
                      !.bestDistance = position - c.candidate,
                      !.done = TRUE]
       ELSE NextCandidate(prev, [c EXCEPT !.bestLength = length,
                                          !.bestDistance = position - c.candidate])
  ELSE NextCandidate(prev, c)

ChainStep(data, prev, position, maxMatch, c) ==
  IF ~(c.candidate # -1 /\ c.attempts < MAX_CHAIN_HITS)
  THEN [c EXCEPT !.done = TRUE]
  ELSE IF position - c.candidate > WINDOW_SIZE
  THEN [c EXCEPT !.done = TRUE]
  ELSE IF /\ c.bestLength >= MIN_MATCH
          /\ \/ position + c.bestLength >= Len(data)
             \/ data[position + c.bestLength + 1] # data[c.candidate + c.bestLength + 1]
  THEN NextCandidate(prev, c)
  ELSE TakeLength(prev, position, c,
                  ExtendMatch(data, position, c.candidate, MIN_MATCH, maxMatch))

\* Up to n passes, stopping when the loop is done (split in halves only to
\* keep the evaluation shallow).
RECURSIVE ChainWalk(_, _, _, _, _, _)
ChainWalk(data, prev, position, maxMatch, c, n) ==
  IF c.done \/ n = 0 THEN c
  ELSE IF n = 1 THEN ChainStep(data, prev, position, maxMatch, c)
  ELSE LET h == n \div 2
       IN ChainWalk(data, prev, position, maxMatch,
                    ChainWalk(data, prev, position, maxMatch, c, h), n - h)

Min(a, b) == IF a <= b THEN a ELSE b

\* BestOf with the distance counted from the byte after the candidate.
BestOfFar(head, best) ==
  IF best.bestLength < MIN_MATCH
  THEN [length |-> 0, distance |-> 0, head |-> head]
  ELSE [length |-> best.bestLength, distance |-> best.bestDistance + 1,
        head |-> head]

\* BestOf reporting no match whatever the candidate loop found.
BestOfNone(head, best) == [length |-> 0, distance |-> 0, head |-> head]

\* findBestMatch after its candidate loop, which ended in state best.
BestOf(head, best) ==
  IF best.bestLength < MIN_MATCH
  THEN [length |-> 0, distance |-> 0, head |-> head]
  ELSE [length |-> best.bestLength, distance |-> best.bestDistance, head |-> head]

\* findBestMatch after pruneHead returned pr.  Every pass of the candidate
\* loop but the last adds 1 to attempts, so the loop makes at most
\* MAX_CHAIN_HITS + 1 passes.
BestFrom(data, prev, position, pr) ==
  BestOf(pr.head,
         ChainWalk(data, prev, position, Min(MAX_MATCH, Len(data) - position),
                   [candidate |-> pr.node, bestLength |-> 0, bestDistance |-> 0,
                    attempts |-> 0, done |-> FALSE],
                   MAX_CHAIN_HITS + 1))

\* Returns the match and the head map (pruneHead may have changed it).
findBestMatch(data, st, position) ==
  IF position >= hashableLimit(data)
  THEN [length |-> 0, distance |-> 0, head |-> st.head]
  ELSE BestFrom(data, st.prev, position,
                pruneHead(st.head, st.prev, computeKey(data, position), position))

\* InsertRange inserting only the position a match starts at.
InsertRangeFirst(data, st, position, count) ==
  IF count = 0 THEN st ELSE insertPosition(data, st, position)

\* insertPosition(position + i) for i = 0 .. count - 1, in that order.  The
\* range is split in halves only to keep the evaluation shallow.
RECURSIVE InsertRange(_, _, _, _)
InsertRange(data, st, position, count) ==
  IF Now(st.position) /\ count = 0 THEN st
  ELSE IF count = 1 THEN insertPosition(data, st, position)
  ELSE LET h == count \div 2
       IN InsertRange(data, InsertRange(data, st, position, h), position + h, count - h)

\* A sequence of n copies of v.
RECURSIVE Fill(_, _)
Fill(v, n) ==
  IF n = 0 THEN << >>
  ELSE IF n = 1 THEN << v >>
  ELSE Fill(v, n \div 2) \o Fill(v, n - (n \div 2))

TokInit(data) ==
  [position |-> 0, tokens |-> << >>, head |-> << >>, prev |-> Fill(-1, Len(data))]

\* EmitToken pushing a match one byte shorter than the bytes it steps over.
EmitTokenShort(data, st, bestMatch, useMatch) ==
  IF useMatch
  THEN [InsertRange(data, st, st.position, bestMatch.length) EXCEPT
          !.tokens = Append(st.tokens, Match(bestMatch.length - 1, bestMatch.distance)),
          !.position = st.position + bestMatch.length]
  ELSE [insertPosition(data, st, st.position) EXCEPT
          !.tokens = Append(st.tokens, Literal(data[st.position + 1])),
          !.position = st.position + 1]

\* The end of an iteration: the token pushed, the positions inserted.
EmitToken(data, st, bestMatch, useMatch) ==
  IF useMatch
  THEN [InsertRange(data, st, st.position, bestMatch.length) EXCEPT
          !.tokens = Append(st.tokens, Match(bestMatch.length, bestMatch.distance)),
          !.position = st.position + bestMatch.length]
  ELSE [insertPosition(data, st, st.position) EXCEPT
          !.tokens = Append(st.tokens, Literal(data[st.position + 1])),
          !.position = st.position + 1]

\* LazyChoice preferring the literal already when the next match is as long.
LazyChoiceEager(data, st, bestMatch, nextMatch) ==
  EmitToken(data, [st EXCEPT !.head = nextMatch.head], bestMatch,
            ~(nextMatch.length >= bestMatch.length))

\* Lazy matching: nextMatch is the match found at the next position.
LazyChoice(data, st, bestMatch, nextMatch) ==
  EmitToken(data, [st EXCEPT !.head = nextMatch.head], bestMatch,
            ~(nextMatch.length > bestMatch.length))

\* An iteration after findBestMatch(position) returned bestMatch.
AfterBest(data, st, bestMatch) ==
  IF bestMatch.length >= MIN_MATCH
  THEN IF bestMatch.length < MAX_MATCH /\ st.position + 1 < Len(data)
       THEN LazyChoice(data, st, bestMatch, findBestMatch(data, st, st.position + 1))
       ELSE EmitToken(data, st, bestMatch, TRUE)
  ELSE EmitToken(data, st, bestMatch, FALSE)

\* An iteration with the head map as findBestMatch(position) left it.
WithHead(data, st, bestMatch) ==
  AfterBest(data, [st EXCEPT !.head = bestMatch.head], bestMatch)

\* One iteration of the main loop of collectTokens.
TokStep(data, st) == WithHead(data, st, findBestMatch(data, st, st.position))

\* At most count iterations of the main loop, those that start before
\* position limit.  The count is split in halves only to keep the evaluation
\* shallow.
RECURSIVE TokIter(_, _, _, _)
TokIter(data, st, limit, count) ==
  IF Now(st.position) /\ (count = 0 \/ st.position >= limit) THEN st
  ELSE IF count = 1 THEN TokStep(data, st)
  ELSE TokIter(data, TokIter(data, st, limit, count \div 2), limit,
               count - (count \div 2))

\* while (position < data.length): every iteration moves on by a byte or
\* more, so there are at most data.length of them.
TokRun(data, st) == TokIter(data, st, Len(data), Len(data))

collectTokens(data) ==
  IF Len(data) = 0 THEN << >> ELSE TokRun(data, TokInit(data)).tokens

\* ------------------------------------------------------------------------
\* deflateFixed.  The result is [err, bytes]: err is the message of the
\* Error findLengthCode or findDistanceCode threw, "" when none was thrown.
\* ------------------------------------------------------------------------

\* if (extraBits > 0) writer.writeBits(value, extraBits)
WriteExtra(w, value, extraBits) ==
  IF extraBits > 0 THEN writeBits(w, value, extraBits) ELSE w

\* A match token after findDistanceCode returned distInfo.
EncodeDistance(w, token, distInfo) ==
  IF distInfo.err # "" THEN [err |-> distInfo.err, w |-> w]
  ELSE [err |-> "",
        w |-> WriteExtra(writeBits(w, fixedDistanceCodes[distInfo.code], 5),
                         token.distance - distInfo.base, distInfo.extraBits)]

\* A match token after findLengthCode returned info.
EncodeLength(w, token, info) ==
  IF info.err # "" THEN [err |-> info.err, w |-> w]
  ELSE EncodeDistance(
         WriteExtra(writeBits(w, fixedLiteralCodes[info.code],
                              fixedLiteralLengths[info.code]),
                    token.length - info.base, info.extraBits),
         token, findDistanceCode(token.distance))

\* The body of the token loop for one token: [err, w].
EncodeToken(w, token) ==
  IF token.type = "literal"
  THEN [err |-> "",
        w |-> writeBits(w, fixedLiteralCodes[token.value],
                        fixedLiteralLengths[token.value])]
  ELSE EncodeLength(w, token, findLengthCode(token.length))

\* The token loop from token i on, r being what the tokens before it made.
RECURSIVE EncodeTokens(_, _, _)
EncodeTokens(r, tokens, i) ==
  IF r.err # "" \/ i > Len(tokens) THEN r
  ELSE EncodeTokens(EncodeToken(r.w, tokens[i]), tokens, i + 1)

\* EndOfBlock writing no end-of-block code.
EndOfBlockOmitted(r) ==
  IF r.err # "" THEN [err |-> r.err, bytes |-> << >>]
  ELSE [err |-> "", bytes |-> toUint8Array(WriterAlignToByte(r.w))]

\* deflateFixed after the token loop.
EndOfBlock(r) ==
  IF r.err # "" THEN [err |-> r.err, bytes |-> << >>]
  ELSE [err |-> "",
        bytes |-> toUint8Array(WriterAlignToByte(
                    writeBits(r.w, fixedLiteralCodes[256], fixedLiteralLengths[256])))]

\* deflateFixed from the token loop on, for a given token sequence.
DeflateTokens(tokens) ==
  EndOfBlock(EncodeTokens([err |-> "", w |-> writeBits(writeBits(NewWriter, 1, 1), 1, 2)],
                          tokens, 1))

deflateFixed(data) == DeflateTokens(collectTokens(data))

\* ------------------------------------------------------------------------
\* The gzip container: compression
\* ------------------------------------------------------------------------

\* writeUint32LE storing the most significant byte first.
writeUint32BE(value) ==
  << BitAnd(Shr(value[1] % 65536, 8), 255),
     BitAnd(value[1] % 65536, 255),
     BitAnd(Shr(value[2], 8), 255),
     BitAnd(value[2], 255) >>

\* The four bytes writeUint32LE stores for a word.
writeUint32LE(value) ==
  << BitAnd(value[2], 255),
     BitAnd(Shr(value[2], 8), 255),
     BitAnd(value[1] % 65536, 255),
     BitAnd(Shr(value[1] % 65536, 8), 255) >>

GzipHeader == << GZIP_ID1, GZIP_ID2, GZIP_CM_DEFLATE, 0, 0, 0, 0, 0, 0, 255 >>

\* gzipCompress after deflateFixed returned deflated.
Container(data, deflated) ==
  IF deflated.err # "" THEN [err |-> deflated.err, bytes |-> << >>]
  ELSE [err |-> "",
        bytes |-> GzipHeader \o deflated.bytes
                    \o writeUint32LE(crc32(data))
                    \o writeUint32LE(ToUint32(NumW(Len(data))))]

\* [err, bytes]
gzipCompress(data) == Container(data, deflateFixed(data))

\* ------------------------------------------------------------------------
\* BitReader.  The reader over a buffer `bytes` is the record
\* [bitBuffer, bitLength, offset, err, value]: value is what the last
\* readBits or peekBits returned, err the message of the Error it threw.
\* ------------------------------------------------------------------------

NewReader == [bitBuffer |-> 0, bitLength |-> 0, offset |-> 0, err |-> "", value |-> 0]

\* ensureBits taking zero bits where the buffer has no more bytes.
RECURSIVE ensureBitsPadded(_, _, _)
ensureBitsPadded(bytes, r, n) ==
  IF r.bitLength < n
  THEN IF r.offset >= Len(bytes)
       THEN ensureBitsPadded(bytes, [r EXCEPT !.bitLength = r.bitLength + 8], n)
       ELSE ensureBitsPadded(bytes,
              [r EXCEPT !.bitBuffer = BitOr(r.bitBuffer,
                                            Shl(bytes[r.offset + 1], r.bitLength)),
                        !.offset = r.offset + 1,
                        !.bitLength = r.bitLength + 8],
              n)
  ELSE r

RECURSIVE ensureBits(_, _, _)
ensureBits(bytes, r, n) ==
  IF r.bitLength < n
  THEN IF r.offset >= Len(bytes)
       THEN [r EXCEPT !.err = "Unexpected end of stream"]
       ELSE ensureBits(bytes,
              [r EXCEPT !.bitBuffer = BitOr(r.bitBuffer,
                                            Shl(bytes[r.offset + 1], r.bitLength)),
                        !.offset = r.offset + 1,
                        !.bitLength = r.bitLength + 8],
              n)
  ELSE r

\* readBits after ensureBits returned e.
TakeBits(e, n) ==
  IF e.err # "" THEN e
  ELSE [e EXCEPT !.value = BitAnd(e.bitBuffer, Shl(1, n) - 1),
                 !.bitBuffer = Shr(e.bitBuffer, n),
                 !.bitLength = e.bitLength - n]

readBits(bytes, r, n) == TakeBits(ensureBits(bytes, r, n), n)

\* peekBits after ensureBits returned e.
LookBits(e, n) ==
  IF e.err # "" THEN e
  ELSE [e EXCEPT !.value = BitAnd(e.bitBuffer, Shl(1, n) - 1)]

\* peekBits taking the bits out of the buffer as readBits does.
peekBitsTaking(bytes, r, n) == TakeBits(ensureBits(bytes, r, n), n)

peekBits(bytes, r, n) == LookBits(ensureBits(bytes, r, n), n)

\* alignToByte leaving the buffered bits where they are.
ReaderNoAlign(r) == r

ReaderAlignToByte(r) == [r EXCEPT !.bitBuffer = 0, !.bitLength = 0]

readByte(bytes, r) == readBits(bytes, r, 8)

\* ------------------------------------------------------------------------
\* readFixedLiteral and readFixedDistance: the reader afterwards, with the
\* decoded symbol in value.
\* ------------------------------------------------------------------------

\* reader.readBits(len); return symbol
Consume(bytes, r, len, symbol) == [readBits(bytes, r, len) EXCEPT !.value = symbol]

\* readFixedLiteral after peekBits(FIXED_LITERAL_MAX_BITS) returned p9.
LongLiteral(bytes, p9) ==
  IF p9.err # "" THEN p9
  ELSE IF fixedLiteralDecode[p9.value] < 0 \/ fixedLiteralDecodeLength[p9.value] = 0
  THEN [p9 EXCEPT !.err = "Failed to decode literal/length symbol"]
  ELSE Consume(bytes, p9, fixedLiteralDecodeLength[p9.value],
               fixedLiteralDecode[p9.value])

\* readFixedLiteral after peekBits(FIXED_LITERAL_SHORT_BITS) returned p7.
ShortLiteral(bytes, p7) ==
  IF p7.err # "" THEN p7
  ELSE IF fixedLiteralShortLength[p7.value] # 0
  THEN Consume(bytes, p7, fixedLiteralShortLength[p7.value],
               fixedLiteralShortDecode[p7.value])
  ELSE LongLiteral(bytes, peekBits(bytes, p7, FIXED_LITERAL_MAX_BITS))

readFixedLiteral(bytes, r) ==
  ShortLiteral(bytes, peekBits(bytes, r, FIXED_LITERAL_SHORT_BITS))

\* readFixedDistance after peekBits(5) returned p5.
DistanceSymbol(bytes, p5) ==
  IF p5.err # "" THEN p5
  ELSE IF fixedDistanceDecode[p5.value] < 0 \/ fixedDistanceDecodeLength[p5.value] = 0
  THEN [p5 EXCEPT !.err = "Failed to decode distance symbol"]
  ELSE Consume(bytes, p5, fixedDistanceDecodeLength[p5.value],
               fixedDistanceDecode[p5.value])

readFixedDistance(bytes, r) == DistanceSymbol(bytes, peekBits(bytes, r, 5))

\* ------------------------------------------------------------------------
\* inflateFixed.  The decoder's state is [reader, out, err, mode, isFinal]:
\* mode is "header" before a block header is read, "fixed" inside a fixed
\* Huffman block and "done" after the final block; out is the number[] the
\* code pushes to, where Undefined stands for a pushed `undefined`.
\* ------------------------------------------------------------------------

Undefined == -1

InflateInit ==
  [reader |-> NewReader, out |-> << >>, err |-> "", mode |-> "header",
   isFinal |-> FALSE]

Throw(st, r, msg) == [st EXCEPT !.reader = r, !.err = msg]

\* EndBlock ending the loop after every block.
EndBlockAlways(st) == [st EXCEPT !.mode = "done"]

\* EndBlock going on to another header after a final block.
EndBlockNever(st) == [st EXCEPT !.mode = "header"]

\* The next header when a block ends: if (isFinal) done = true.
EndBlock(st) == [st EXCEPT !.mode = IF st.isFinal THEN "done" ELSE "header"]

\* out.push(reader.readByte()), b being the reader after readByte.
PushByte(st, b) ==
  IF b.err # "" THEN Throw(st, b, b.err)
  ELSE [st EXCEPT !.reader = b, !.out = Append(st.out, b.value)]

\* for (i = 0; i < count; i++) out.push(reader.readByte()), from pass i.
RECURSIVE StoredCopy(_, _, _)
StoredCopy(bytes, st, count) ==
  IF st.err # "" \/ count = 0 THEN st
  ELSE IF count = 1 THEN PushByte(st, readByte(bytes, st.reader))
  ELSE StoredCopy(bytes, StoredCopy(bytes, st, count \div 2),
                  count - (count \div 2))

\* StoredBody copying the bytes whatever nlen is.
StoredBodyUnchecked(bytes, st, len, nlen) == EndBlock(StoredCopy(bytes, st, len))

\* The stored-block branch once len and nlen are read.
StoredBody(bytes, st, len, nlen) ==
  IF BitXor(len, 65535) # nlen
  THEN Throw(st, st.reader, "Stored block length mismatch")
  ELSE EndBlock(StoredCopy(bytes, st, len))

\* A 16-bit little-endian number from two readByte calls: the reader after
\* them, with the number in value (r is the reader after the first call).
SecondByte(bytes, r) ==
  IF r.err # "" THEN r
  ELSE [readByte(bytes, r) EXCEPT !.value = BitOr(r.value, Shl(@, 8))]

ReadUint16(bytes, r) == SecondByte(bytes, readByte(bytes, r))

\* The stored-block branch after nlen was read (n the reader then).
StoredNlen(bytes, st, len, n) ==
  IF n.err # "" THEN Throw(st, n, n.err)
  ELSE StoredBody(bytes, [st EXCEPT !.reader = n], len, n.value)

\* The stored-block branch after len was read (l the reader then).
StoredLen(bytes, st, l) ==
  IF l.err # "" THEN Throw(st, l, l.err)
  ELSE StoredNlen(bytes, st, l.value, ReadUint16(bytes, l))

\* The stored-block branch, after the header.
StoredBlock(bytes, st) ==
  StoredLen(bytes, st, ReadUint16(bytes, ReaderAlignToByte(st.reader)))

\* BlockType testing only the low bit of the type: 10 is taken for 00 and
\* 11 for 01.
BlockTypeLowBit(bytes, st, isFinal, t) ==
  IF t.err # "" THEN Throw(st, t, t.err)
  ELSE IF t.value % 2 = 0
  THEN StoredBlock(bytes, [st EXCEPT !.reader = t, !.isFinal = isFinal])
  ELSE [st EXCEPT !.reader = t, !.isFinal = isFinal, !.mode = "fixed"]

\* The outer loop's pass after the block type was read (t the reader then).
BlockType(bytes, st, isFinal, t) ==
  IF t.err # "" THEN Throw(st, t, t.err)
  ELSE IF t.value = 0
  THEN StoredBlock(bytes, [st EXCEPT !.reader = t, !.isFinal = isFinal])
  ELSE IF t.value = 1
  THEN [st EXCEPT !.reader = t, !.isFinal = isFinal, !.mode = "fixed"]
  ELSE Throw(st, t, "Unsupported DEFLATE block type")

\* The outer loop's pass after the final bit was read (f the reader then).
FinalBit(bytes, st, f) ==
  IF f.err # "" THEN Throw(st, f, f.err)
  ELSE BlockType(bytes, st, f.value = 1, readBits(bytes, f, 2))

\* One pass of the outer while loop up to the choice of the branch.
BlockHeader(bytes, st) == FinalBit(bytes, st, readBits(bytes, st.reader, 1))

\* CopyLoop as one copy of the bytes the output holds when the copy starts:
\* out.push(...out.slice(start + i, start + i + count)).
CopyLoopSlice(out, start, i, count) ==
  out \o SubSeq(out, start + i + 1,
                IF start + i + count <= Len(out) THEN start + i + count ELSE Len(out))

\* for (i = 0; i < count; i++) out.push(out[start + i]).
RECURSIVE CopyLoop(_, _, _, _)
CopyLoop(out, start, i, count) ==
  IF Now(out) /\ count = 0 THEN out
  ELSE IF count = 1 THEN Append(out, out[start + i + 1])
  ELSE CopyLoop(CopyLoop(out, start, i, count \div 2), start,
                i + (count \div 2), count - (count \div 2))

\* CopyMatch without the test start < 0: out[start + i] is undefined while
\* start + i is negative.
CopyMatchUnchecked(st, r, matchLength, distance, isNaN) ==
  IF isNaN
  THEN [st EXCEPT !.reader = r, !.out = st.out \o Fill(Undefined, matchLength)]
  ELSE IF Len(st.out) - distance < 0
  THEN [st EXCEPT
          !.reader = r,
          !.out = IF distance - Len(st.out) >= matchLength
                  THEN st.out \o Fill(Undefined, matchLength)
                  ELSE CopyLoop(st.out \o Fill(Undefined, distance - Len(st.out)),
                                0, 0, matchLength - (distance - Len(st.out)))]
  ELSE [st EXCEPT !.reader = r,
                  !.out = CopyLoop(st.out, Len(st.out) - distance, 0, matchLength)]

\* "Copy matched bytes".  isNaN: the distance is NaN (DIST_BASE has no entry
\* for the symbol), so start is NaN, start < 0 is false and out[start + i]
\* is undefined.
CopyMatch(st, r, matchLength, distance, isNaN) ==
  IF isNaN
  THEN [st EXCEPT !.reader = r, !.out = st.out \o Fill(Undefined, matchLength)]
  ELSE IF Len(st.out) - distance < 0 THEN Throw(st, r, "Invalid match distance")
  ELSE [st EXCEPT !.reader = r,
                  !.out = CopyLoop(st.out, Len(st.out) - distance, 0, matchLength)]

\* extra > 0 ? reader.readBits(extra) : 0
ReadExtra(bytes, r, extra) ==
  IF extra > 0 THEN readBits(bytes, r, extra) ELSE [r EXCEPT !.value = 0]

\* A match after the distance's extra bits were read (de the reader then).
\* DIST_BASE[distSymbol] is undefined for a symbol past the table, and
\* undefined + 0 is NaN.
MatchDistance(st, matchLength, distSymbol, de) ==
  IF de.err # "" THEN Throw(st, de, de.err)
  ELSE IF distSymbol >= Len(DIST_BASE) THEN CopyMatch(st, de, matchLength, 0, TRUE)
  ELSE CopyMatch(st, de, matchLength, DIST_BASE[distSymbol + 1] + de.value, FALSE)

\* A match after readFixedDistance (d the reader then).  DIST_EXTRA of a
\* symbol past the table is undefined, and undefined > 0 is false.
MatchSymbol(bytes, st, matchLength, d) ==
  IF d.err # "" THEN Throw(st, d, d.err)
  ELSE MatchDistance(st, matchLength, d.value,
         ReadExtra(bytes, d,
                   IF d.value >= Len(DIST_EXTRA) THEN 0 ELSE DIST_EXTRA[d.value + 1]))

\* A match after the length's extra bits were read (le the reader then).
MatchLength(bytes, st, baseLen, le) ==
  IF le.err # "" THEN Throw(st, le, le.err)
  ELSE MatchSymbol(bytes, st, baseLen + le.value, readFixedDistance(bytes, le))

\* A pass of the inner loop after readFixedLiteral (s the reader then).
OnSymbol(bytes, st, s) ==
  IF s.err # "" THEN Throw(st, s, s.err)
  ELSE IF s.value < 256
  THEN [st EXCEPT !.reader = s, !.out = Append(st.out, s.value)]
  ELSE IF s.value = 256 THEN EndBlock([st EXCEPT !.reader = s])
  ELSE IF s.value - 257 < 0 \/ s.value - 257 >= Len(LENGTH_BASE)
  THEN Throw(st, s, "Invalid length symbol")
  ELSE MatchLength(bytes, st, LENGTH_BASE[s.value - 257 + 1],
                   ReadExtra(bytes, s, LENGTH_EXTRA[s.value - 257 + 1]))

\* One pass of the inner while (true) loop of a fixed Huffman block.
FixedSymbol(bytes, st) == OnSymbol(bytes, st, readFixedLiteral(bytes, st.reader))

InflateStep(bytes, st) ==
  IF st.mode = "header" THEN BlockHeader(bytes, st) ELSE FixedSymbol(bytes, st)

\* Up to n steps, stopping at an Error or after the final block (split in
\* halves only to keep the evaluation shallow).
RECURSIVE InflateRun(_, _, _)
InflateRun(bytes, st, n) ==
  IF st.err # "" \/ st.mode = "done" \/ n = 0 THEN st
  ELSE IF n = 1 THEN InflateStep(bytes, st)
  ELSE InflateRun(bytes, InflateRun(bytes, st, n \div 2), n - (n \div 2))

\* Uint8Array.from(out): undefined becomes 0.
ToBytes(out) == [i \in 1..Len(out) |-> IF out[i] = Undefined THEN 0 ELSE out[i]]

\* [err, out]: the bytes returned, or the Error thrown and the contents of
\* out at that point.  Every step reads at least 3 bits, so 3 * Len + 1
\* steps end every run.
Inflated(st) ==
  IF st.err # "" THEN [err |-> st.err, out |-> st.out]
  ELSE [err |-> "", out |-> ToBytes(st.out)]

inflateFixed(data) == Inflated(InflateRun(data, InflateInit, 3 * Len(data) + 1))

\* ------------------------------------------------------------------------
\* The gzip container: decompression
\* ------------------------------------------------------------------------

\* bytes[i] | 0: an index past the end reads undefined, which | turns to 0.
ByteAt(bytes, i) == IF i < Len(bytes) THEN bytes[i + 1] ELSE 0

\* readUint32LE without the final >>> 0: the signed value of the four bytes.
readInt32LE(bytes, offset) ==
  ToInt32(<< BitOr(ByteAt(bytes, offset + 2), Shl(ByteAt(bytes, offset + 3), 8)),
             BitOr(ByteAt(bytes, offset), Shl(ByteAt(bytes, offset + 1), 8)) >>)

readUint32LE(bytes, offset) ==
  << BitOr(ByteAt(bytes, offset + 2), Shl(ByteAt(bytes, offset + 3), 8)),
     BitOr(ByteAt(bytes, offset), Shl(ByteAt(bytes, offset + 1), 8)) >>

\* while (offset < data.length && data[offset] !== 0) offset += 1
RECURSIVE SkipToNul(_, _)
SkipToNul(data, offset) ==
  IF offset < Len(data) /\ data[offset + 1] # 0
  THEN SkipToNul(data, offset + 1)
  ELSE offset

\* The four optional header fields, each from the offset the one before
\* it left.
SkipExtra(data, flags, offset) ==
  IF BitAnd(flags, 4) # 0
  THEN offset + 2 + BitOr(ByteAt(data, offset), Shl(ByteAt(data, offset + 1), 8))
  ELSE offset

\* SkipName without the step over the terminating zero.
SkipNameOnly(data, flags, offset) ==
  IF BitAnd(flags, 8) # 0 THEN SkipToNul(data, offset) ELSE offset

SkipName(data, flags, offset) ==
  IF BitAnd(flags, 8) # 0 THEN SkipToNul(data, offset) + 1 ELSE offset

SkipComment(data, flags, offset) ==
  IF BitAnd(flags, 16) # 0 THEN SkipToNul(data, offset) + 1 ELSE offset

SkipHcrc(flags, offset) == IF BitAnd(flags, 2) # 0 THEN offset + 2 ELSE offset

\* The offset after the optional header fields.
PayloadOffset(data) ==
  SkipHcrc(data[4],
    SkipComment(data, data[4], SkipName(data, data[4], SkipExtra(data, data[4], 10))))

\* The footer checks on the decoded bytes' CRC and length (length a word).
FooterError(crc, length, expectedCrc, expectedSize) ==
  IF crc # expectedCrc THEN "CRC32 mismatch"
  ELSE IF ToInt32(length) # expectedSize THEN "Size mismatch"
  ELSE ""

\* gzipDecompress after the footer checks, e being the message thrown.
Checked(inflated, e) == IF e # "" THEN [err |-> e, out |-> << >>] ELSE inflated

\* gzipDecompress after inflateFixed returned (or threw) inflated.
Footer(data, inflated) ==
  IF inflated.err # "" THEN inflated
  ELSE Checked(inflated,
               FooterError(crc32(inflated.out), NumW(Len(inflated.out)),
                           readUint32LE(data, Len(data) - 8),
                           readUint32LE(data, Len(data) - 4)))

\* Payload letting the optional header fields end anywhere in the buffer.
PayloadOverFooter(data, offset) ==
  IF offset > Len(data)
  THEN [err |-> "Incomplete gzip payload", out |-> << >>]
  ELSE Footer(data, inflateFixed(SubSeq(data, offset + 1, Len(data) - 8)))

\* gzipDecompress after the optional header fields, which end at offset.
Payload(data, offset) ==
  IF offset > Len(data) - 8
  THEN [err |-> "Incomplete gzip payload", out |-> << >>]
  ELSE Footer(data, inflateFixed(SubSeq(data, offset + 1, Len(data) - 8)))

\* HeaderError asking for the 10 bytes of the header only.
HeaderErrorShort(data) ==
  IF Len(data) < 10 THEN "Invalid gzip data"
  ELSE IF data[1] # GZIP_ID1 \/ data[2] # GZIP_ID2 \/ data[3] # GZIP_CM_DEFLATE
  THEN "Unsupported gzip header"
  ELSE IF BitAnd(data[4], 4) # 0 /\ 10 + 2 > Len(data)
  THEN "Invalid gzip extra field length"
  ELSE ""

\* The message of the Error the checks on the buffer's size and first bytes
\* throw, "" for none.
HeaderError(data) ==
  IF Len(data) < 18 THEN "Invalid gzip data"
  ELSE IF data[1] # GZIP_ID1 \/ data[2] # GZIP_ID2 \/ data[3] # GZIP_CM_DEFLATE
  THEN "Unsupported gzip header"
  ELSE IF BitAnd(data[4], 4) # 0 /\ 10 + 2 > Len(data)
  THEN "Invalid gzip extra field length"
  ELSE ""

\* [err, out]
gzipDecompress(data) ==
  IF HeaderError(data) # "" THEN [err |-> HeaderError(data), out |-> << >>]
  ELSE Payload(data, PayloadOffset(data))

\* ------------------------------------------------------------------------
\* Inputs of the model
\* ------------------------------------------------------------------------

\* Longest buffer over Alphabet, longest periodic buffer and its longest
\* period.
MaxLen == 4
MaxRun == 262
MaxPeriod == 3

\* Bytes with an 8-bit code (0, 97) and with a 9-bit code (255).
Alphabet == {0, 97, 255}

RECURSIVE SeqsUpTo(_)
SeqsUpTo(n) ==
  IF n = 0 THEN {<< >>}
  ELSE LET S == SeqsUpTo(n - 1)
       IN S \cup {Append(x, b) : x \in {y \in S : Len(y) = n - 1}, b \in Alphabet}

\* The first n bytes of pattern repeated.
RECURSIVE Repeat(_, _)
Repeat(pattern, n) ==
  IF n <= Len(pattern) THEN SubSeq(pattern, 1, n)
  ELSE LET h == Repeat(pattern, ((n \div Len(pattern)) \div 2) * Len(pattern))
       IN IF Len(h) = 0 THEN pattern \o Repeat(pattern, n - Len(pattern))
          ELSE h \o h \o Repeat(pattern, n - 2 * Len(h))

PatternBytes == << 97, 255, 0, 143, 144, 65, 66, 67 >>

Periodic(p, n) == Repeat(SubSeq(PatternBytes, 1, p), n)

\* The buffers of gzip.test.ts: [1,2,3,4,5], [0xde,0xad,0xbe,0xef],
\* 128 bytes of 'ABCD' and 'dynamic block test'.
TestVectors ==
  { << 1, 2, 3, 4, 5 >>,
    << 222, 173, 190, 239 >>,
    Repeat(<< 65, 66, 67, 68 >>, 128),
    << 100, 121, 110, 97, 109, 105, 99, 32, 98, 108, 111, 99, 107, 32, 116,
       101, 115, 116 >> }

Inputs ==
  SeqsUpTo(MaxLen) \cup TestVectors
    \cup {Periodic(p, n) : p \in 1..MaxPeriod, n \in 0..MaxRun}

\* ------------------------------------------------------------------------
\* The state machine: a caller compresses a buffer, the buffer may be
\* altered on the way, and a caller decompresses what arrives.
\* ------------------------------------------------------------------------

VARIABLES
  pc,       \* "start", "compressed", "altered", "done"
  input,    \* the buffer given to gzipCompress
  tokens,   \* the tokens collectTokens made of it
  cerr,     \* the message of the Error gzipCompress threw, "" for none
  base,     \* what gzipCompress returned
  data,     \* the buffer given to gzipDecompress
  how,      \* how data was made from base
  result,   \* what gzipDecompress did: [err, out]
  blocks,   \* the DEFLATE blocks a stream is assembled from (see SpecBlocks)
  footer,   \* a size check of gzipDecompress on its own (see SpecSize)
  frame,    \* a function of gzip.ts run step by step (see SpecScan)
  poll      \* a call of waitForPaymentPayload (see SpecPoll)

vars == << pc, input, tokens, cerr, base, data, how, result, blocks, frame, footer,
          poll >>

NoResult == [err |-> "pending", out |-> << >>]

\* The values of footer, poll and frame where no size check, no call and no
\* step-by-step run is modelled.
NoFooter == [phase |-> "none"]
NoPoll == [pc |-> "none"]
NoFrame == [kind |-> "none"]

Init ==
  /\ pc = "start"
  /\ input \in Inputs
  /\ tokens = << >>
  /\ cerr = ""
  /\ base = << >>
  /\ data = << >>
  /\ how = "none"
  /\ result = NoResult
  /\ blocks = << >>
  /\ footer = NoFooter
  /\ frame = NoFrame
  /\ poll = NoPoll

Compress ==
  /\ pc = "start"
  /\ tokens' = collectTokens(input)
  /\ \E c \in {gzipCompress(input)} :
       /\ cerr' = c.err
       /\ base' = c.bytes
       /\ data' = c.bytes
  /\ pc' = "compressed"
  /\ UNCHANGED << input, how, result, blocks, frame, footer,
                  poll >>

Decompress ==
  /\ pc \in {"compressed", "altered"}
  /\ cerr = ""
  /\ result' = gzipDecompress(data)
  /\ pc' = "done"
  /\ UNCHANGED << input, tokens, cerr, base, data, how, blocks, frame, footer,
                  poll >>

Next == Compress \/ Decompress

Spec == Init /\ [][Next]_vars

\* ------------------------------------------------------------------------
\* The same, with the buffer altered between the two calls
\* ------------------------------------------------------------------------

AlterInputs == SeqsUpTo(MaxLen) \cup TestVectors

\* The bit masks an alteration XORs into a byte.
Masks == {1, 128, 255}

InitAlter ==
  /\ pc = "start"
  /\ input \in AlterInputs
  /\ tokens = << >>
  /\ cerr = ""
  /\ base = << >>
  /\ data = << >>
  /\ how = "none"
  /\ result = NoResult
  /\ blocks = << >>
  /\ footer = NoFooter
  /\ frame = NoFrame
  /\ poll = NoPoll

Altered(bytes, label) ==
  /\ data' = bytes
  /\ how' = label
  /\ pc' = "altered"
  /\ UNCHANGED << input, tokens, cerr, base, result, blocks, frame, footer,
                  poll >>

\* data[Len - 8 + i] ^= m, i in 0..3: the CRC32 field.
FlipCrc ==
  /\ pc = "compressed"
  /\ \E i \in 0..3, m \in Masks :
       Altered([data EXCEPT ![Len(data) - 8 + i + 1] = BitXor(@, m)], "crc")

\* data[Len - 4 + i] ^= m, i in 0..3: the size field.
FlipSize ==
  /\ pc = "compressed"
  /\ \E i \in 0..3, m \in Masks :
       Altered([data EXCEPT ![Len(data) - 4 + i + 1] = BitXor(@, m)], "size")

\* data.slice(0, n) for n up to the start of the footer.
Truncate ==
  /\ pc = "compressed"
  /\ \E n \in 0..(Len(data) - 8) : Altered(SubSeq(data, 1, n), "cut")

\* data[10] = (data[10] & ~0x06) | (t << 1): BTYPE forced to t = 10 or 11.
ForceBlockType ==
  /\ pc = "compressed"
  /\ \E t \in {2, 3} :
       Altered([data EXCEPT ![11] = BitOr(BitAnd(@, 249), Shl(t, 1))],
               IF t = 2 THEN "btype10" ELSE "btype11")

\* The bytes of a fixed Huffman block holding tokens whose final bit is 0,
\* followed by the header of a final block of type t.
TwoBlocks(toks, t) ==
  toUint8Array(
    writeBits(
      writeBits(
        writeBits(
          EncodeTokens([err |-> "", w |-> writeBits(writeBits(NewWriter, 0, 1), 1, 2)],
                       toks, 1).w,
          fixedLiteralCodes[256], fixedLiteralLengths[256]),
        1, 1),
      t, 2))

\* The payload replaced by the same tokens in a block that is not final and
\* the header of a block of type t = 10 or 11; the footer stays.
ChainBlock ==
  /\ pc = "compressed"
  /\ \E t \in {2, 3} :
       Altered(GzipHeader \o TwoBlocks(tokens, t)
                 \o SubSeq(data, Len(data) - 7, Len(data)),
               IF t = 2 THEN "chain10" ELSE "chain11")

NextAlter ==
  \/ Compress
  \/ FlipCrc
  \/ FlipSize
  \/ Truncate
  \/ ForceBlockType
  \/ ChainBlock
  \/ Decompress

SpecAlter == InitAlter /\ [][NextAlter]_vars

\* ------------------------------------------------------------------------
\* gzipDecompress on buffers that are no gzip stream
\* ------------------------------------------------------------------------

\* Longest such buffer.
MaxRaw == 19

\* n bytes: three leading bytes, each right or wrong, then a filler.
RawBuffers ==
  { SubSeq(<< h0, h1, h2 >> \o Fill(f, MaxRaw), 1, n) :
      h0 \in {GZIP_ID1, 0}, h1 \in {GZIP_ID2, 0}, h2 \in {GZIP_CM_DEFLATE, 0},
      f \in {0, 255}, n \in 0..MaxRaw }

InitRaw ==
  /\ pc = "altered"
  /\ input = << >>
  /\ tokens = << >>
  /\ cerr = ""
  /\ base = << >>
  /\ data \in RawBuffers
  /\ how = "raw"
  /\ result = NoResult
  /\ blocks = << >>
  /\ footer = NoFooter
  /\ frame = NoFrame
  /\ poll = NoPoll

SpecRaw == InitRaw /\ [][Decompress]_vars

\* ------------------------------------------------------------------------
\* gzipDecompress on crafted streams: a fixed Huffman block made of chosen
\* tokens, with or without the optional header fields.
\* ------------------------------------------------------------------------

\* Longest crafted token sequence.
MaxTokens == 2

\* Literals with an 8-bit and a 9-bit code; matches shorter and longer than
\* their distance.
CraftTokens ==
  {Literal(97), Literal(200)} \cup {Match(l, d) : l \in {3, 10}, d \in {1, 3}}

RECURSIVE TokenSeqs(_)
TokenSeqs(n) ==
  IF n = 0 THEN {<< >>}
  ELSE LET S == TokenSeqs(n - 1)
       IN S \cup {Append(x, t) : x \in {y \in S : Len(y) = n - 1}, t \in CraftTokens}

\* What a token sequence stands for (RFC 1951, 3.2.3): a match of length l
\* and distance d appends, l times, the byte d places before the end.  The
\* expansion stops at a match that reaches before the start.  (The l bytes
\* are appended in two halves only to keep the evaluation shallow.)
RECURSIVE Overlap(_, _, _)
Overlap(out, d, n) ==
  IF Now(out) /\ n = 0 THEN out
  ELSE IF n = 1 THEN Append(out, out[Len(out) - d + 1])
  ELSE Overlap(Overlap(out, d, n \div 2), d, n - (n \div 2))

RECURSIVE Expand(_, _, _)
Expand(toks, i, out) ==
  IF i > Len(toks) THEN out
  ELSE IF toks[i].type = "literal" THEN Expand(toks, i + 1, Append(out, toks[i].value))
  ELSE IF toks[i].distance > Len(out) THEN out
  ELSE Expand(toks, i + 1, Overlap(out, toks[i].distance, toks[i].length))

\* A gzip stream around a payload, its footer the CRC32 and length of plain.
Sealed(payload, plain) ==
  GzipHeader \o payload \o writeUint32LE(crc32(plain))
    \o writeUint32LE(ToUint32(NumW(Len(plain))))

InitCraft ==
  /\ pc = "start"
  /\ input = << >>
  /\ tokens \in TokenSeqs(MaxTokens)
  /\ cerr = ""
  /\ base = << >>
  /\ data = << >>
  /\ how = "none"
  /\ result = NoResult
  /\ blocks = << >>
  /\ footer = NoFooter
  /\ frame = NoFrame
  /\ poll = NoPoll

Craft ==
  /\ pc = "start"
  /\ \E c \in {Sealed(DeflateTokens(tokens).bytes, Expand(tokens, 1, << >>))} :
       /\ base' = c
       /\ data' = c
  /\ how' = "craft"
  /\ pc' = "compressed"
  /\ UNCHANGED << input, tokens, cerr, result, blocks, frame, footer,
                  poll >>

\* The contents the optional fields are given.
ExtraFields == {<< >>, << 0, 7 >>}
Names == {<< >>, << 110, 46, 116 >>}
Comments == {<< >>, << 255 >>}
HeaderCrcs == {<< 0, 0 >>, << 171, 205 >>}

\* The stream with the flags byte f and the fields it announces put between
\* the header and the payload: FEXTRA (XLEN, little-endian, and XLEN bytes),
\* FNAME and FCOMMENT (zero-terminated), FHCRC (two bytes).
WithFields(bytes, f, extra, name, comment, hcrc) ==
  SubSeq(bytes, 1, 3) \o << f >> \o SubSeq(bytes, 5, 10)
    \o (IF BitAnd(f, 4) # 0 THEN << Len(extra) % 256, Len(extra) \div 256 >> \o extra
        ELSE << >>)
    \o (IF BitAnd(f, 8) # 0 THEN name \o << 0 >> ELSE << >>)
    \o (IF BitAnd(f, 16) # 0 THEN comment \o << 0 >> ELSE << >>)
    \o (IF BitAnd(f, 2) # 0 THEN hcrc ELSE << >>)
    \o SubSeq(bytes, 11, Len(bytes))

AddFields ==
  /\ pc = "compressed"
  /\ \E f \in {2 * k : k \in 1..15}, extra \in ExtraFields, name \in Names,
        comment \in Comments, hcrc \in HeaderCrcs :
       /\ data' = WithFields(data, f, extra, name, comment, hcrc)
       /\ how' = "fields"
  /\ pc' = "altered"
  /\ UNCHANGED << input, tokens, cerr, base, result, blocks, frame, footer,
                  poll >>

\* The lengths a stream whose optional fields end at fieldsEnd is cut to, so
\* that they end past the start of the last eight bytes: the shortest buffer
\* gzipDecompress reads, the fields with no byte after them, and the fields
\* with seven bytes after them.
CutLengths(fieldsEnd) ==
  {n \in {18, fieldsEnd, fieldsEnd + 7} : n >= 18 /\ n <= fieldsEnd + 7}

\* The stream with optional fields loses its end: what is left ends fewer
\* than eight bytes after the fields, or inside them.
CutInFields ==
  /\ pc = "altered" /\ how = "fields"
  /\ \E n \in CutLengths(10 + Len(data) - Len(base)) :
       data' = SubSeq(data, 1, n)
  /\ how' = "overrun"
  /\ UNCHANGED << pc, input, tokens, cerr, base, result, blocks, frame, footer,
                  poll >>

NextCraft == Craft \/ AddFields \/ CutInFields \/ Decompress

SpecCraft == InitCraft /\ [][NextCraft]_vars

\* ------------------------------------------------------------------------
\* The DEFLATE format (RFC 1951) as a bit string, written without the
\* writer and the tables of gzip.ts
\* ------------------------------------------------------------------------

\* The n low bits of v, the least significant first (how the format packs
\* every number but a Huffman code) and the most significant first (how it
\* packs a Huffman code).
RECURSIVE BitsLsb(_, _)
BitsLsb(v, n) == IF n = 0 THEN << >> ELSE << v % 2 >> \o BitsLsb(v \div 2, n - 1)

RECURSIVE BitsMsb(_, _)
BitsMsb(v, n) == IF n = 0 THEN << >> ELSE Append(BitsMsb(v \div 2, n - 1), v % 2)

\* The fixed code of a literal/length symbol (RFC 1951, 3.2.6):
\*   0..143   8 bits from 00110000      144..255  9 bits from 110010000
\*   256..279 7 bits from 0000000       280..287  8 bits from 11000000
RfcSymbolBits(sym) ==
  IF sym <= 143 THEN BitsMsb(48 + sym, 8)
  ELSE IF sym <= 255 THEN BitsMsb(400 + sym - 144, 9)
  ELSE IF sym <= 279 THEN BitsMsb(sym - 256, 7)
  ELSE BitsMsb(192 + sym - 280, 8)

\* The row of a base table (RFC 1951, 3.2.5) a length or a distance falls in.
RfcRow(table, v) ==
  CHOOSE i \in 1..Len(table) :
    table[i] <= v /\ (i = Len(table) \/ table[i + 1] > v)

\* A length/distance pair: the length symbol 257 + row, its extra bits, the
\* 5-bit distance code and its extra bits.
RfcMatchBits(token, li, di) ==
  RfcSymbolBits(257 + li - 1)
    \o BitsLsb(token.length - LENGTH_BASE[li], LENGTH_EXTRA[li])
    \o BitsMsb(di - 1, 5)
    \o BitsLsb(token.distance - DIST_BASE[di], DIST_EXTRA[di])

RfcTokenBits(token) ==
  IF token.type = "literal" THEN RfcSymbolBits(token.value)
  ELSE RfcMatchBits(token, RfcRow(LENGTH_BASE, token.length),
                    RfcRow(DIST_BASE, token.distance))

RECURSIVE RfcTokensBits(_, _)
RfcTokensBits(toks, i) ==
  IF i > Len(toks) THEN << >>
  ELSE RfcTokenBits(toks[i]) \o RfcTokensBits(toks, i + 1)

\* Bit k of a bit string that is followed by zeros.
BitAt(bits, k) == IF k <= Len(bits) THEN bits[k] ELSE 0

\* The bytes a bit string packs into, the first bit the lowest of the first
\* byte, the last byte filled with zeros.
PackBits(bits) ==
  [j \in 1..((Len(bits) + 7) \div 8) |->
     BitAt(bits, 8 * j - 7) + 2 * BitAt(bits, 8 * j - 6)
       + 4 * BitAt(bits, 8 * j - 5) + 8 * BitAt(bits, 8 * j - 4)
       + 16 * BitAt(bits, 8 * j - 3) + 32 * BitAt(bits, 8 * j - 2)
       + 64 * BitAt(bits, 8 * j - 1) + 128 * BitAt(bits, 8 * j)]

\* ------------------------------------------------------------------------
\* gzipDecompress on streams of several blocks, stored and fixed Huffman
\* ------------------------------------------------------------------------

\* Longest sequence of blocks.
MaxBlocks == 2

\* A stored block holds bytes and writes NLEN as the complement of LEN with
\* the bits of flip inverted (0: the right NLEN).  A fixed block holds toks.
StoredBlocks ==
  {[final |-> f, type |-> "stored", bytes |-> b, flip |-> x, toks |-> << >>] :
     f \in BOOLEAN, b \in {<< >>, << 97 >>, << 0, 255, 97 >>},
     x \in {0, 1, 32768}}

FixedBlocks ==
  {[final |-> f, type |-> "fixed", bytes |-> << >>, flip |-> 0, toks |-> t] :
     f \in BOOLEAN,
     t \in {<< >>, << Literal(97) >>, << Literal(200), Match(3, 1) >>,
            << Match(3, 2) >>, << Match(4, 3) >>}}

RECURSIVE BlockSeqs(_)
BlockSeqs(n) ==
  IF n = 0 THEN {<< >>}
  ELSE LET S == BlockSeqs(n - 1)
       IN S \cup {Append(x, b) : x \in {y \in S : Len(y) = n - 1},
                                 b \in StoredBlocks \cup FixedBlocks}

Zeros(n) == [i \in 1..n |-> 0]

\* Zeros up to the next byte boundary after n bits.
PadBits(n) == Zeros((8 - (n % 8)) % 8)

RECURSIVE BytesBits(_, _)
BytesBits(bytes, i) ==
  IF i > Len(bytes) THEN << >>
  ELSE BitsLsb(bytes[i], 8) \o BytesBits(bytes, i + 1)

\* The bits of a block that starts after n bits of the stream: BFINAL,
\* BTYPE, and then LEN, NLEN and the bytes on a byte boundary (RFC 1951,
\* 3.2.4), or the tokens' codes and the end-of-block code.
BlockBits(b, n) ==
  << IF b.final THEN 1 ELSE 0 >>
    \o (IF b.type = "stored"
        THEN << 0, 0 >> \o PadBits(n + 3)
               \o BitsLsb(Len(b.bytes), 16)
               \o BitsLsb(BitXor(BitXor(Len(b.bytes), 65535), b.flip), 16)
               \o BytesBits(b.bytes, 1)
        ELSE << 1, 0 >> \o RfcTokensBits(b.toks, 1) \o RfcSymbolBits(256))

RECURSIVE StreamBits(_, _, _)
StreamBits(bs, i, bits) ==
  IF i > Len(bs) THEN bits
  ELSE StreamBits(bs, i + 1, bits \o BlockBits(bs[i], Len(bits)))

\* What the tokens of a block stand for after the bytes out: [err, out].
RECURSIVE BlockExpand(_, _, _)
BlockExpand(toks, i, out) ==
  IF i > Len(toks) THEN [err |-> "", out |-> out]
  ELSE IF toks[i].type = "literal"
  THEN BlockExpand(toks, i + 1, Append(out, toks[i].value))
  ELSE IF toks[i].distance > Len(out)
  THEN [err |-> "Invalid match distance", out |-> out]
  ELSE BlockExpand(toks, i + 1, Overlap(out, toks[i].distance, toks[i].length))

\* What block b stands for after the bytes out: [err, out].
BlockMeaning(b, out) ==
  IF b.type = "fixed" THEN BlockExpand(b.toks, 1, out)
  ELSE IF b.flip # 0 THEN [err |-> "Stored block length mismatch", out |-> out]
  ELSE [err |-> "", out |-> out \o b.bytes]

\* What a sequence of blocks stands for, read from block i on after the
\* bytes out: the blocks up to the first one marked final, and a stream
\* that ends with no such block is cut short.
RECURSIVE BlocksMeaning(_, _, _)
BlocksMeaning(bs, i, out) ==
  IF i > Len(bs) THEN [err |-> "Unexpected end of stream", out |-> out]
  ELSE IF BlockMeaning(bs[i], out).err # "" THEN BlockMeaning(bs[i], out)
  ELSE IF bs[i].final THEN BlockMeaning(bs[i], out)
  ELSE BlocksMeaning(bs, i + 1, BlockMeaning(bs[i], out).out)

InitBlocks ==
  /\ pc = "start"
  /\ input = << >>
  /\ tokens = << >>
  /\ cerr = ""
  /\ base = << >>
  /\ data = << >>
  /\ how = "none"
  /\ result = NoResult
  /\ blocks \in BlockSeqs(MaxBlocks)
  /\ footer = NoFooter
  /\ frame = NoFrame
  /\ poll = NoPoll

\* The blocks are written one after the other and sealed with the footer
\* of what they stand for.
Assemble ==
  /\ pc = "start"
  /\ \E c \in {Sealed(PackBits(StreamBits(blocks, 1, << >>)),
                       BlocksMeaning(blocks, 1, << >>).out)} :
       /\ base' = c
       /\ data' = c
  /\ how' = "blocks"
  /\ pc' = "compressed"
  /\ UNCHANGED << input, tokens, cerr, result, blocks, frame, footer, poll >>

NextBlocks == Assemble \/ Decompress

SpecBlocks == InitBlocks /\ [][NextBlocks]_vars

\* ------------------------------------------------------------------------
\* The size field on its own: gzipCompress writes it for a buffer of one
\* length and gzipDecompress tests it against decoded bytes of another.
\* Lengths are words, so that those of 2^31 and more are covered.
\* ------------------------------------------------------------------------

\* Lengths around 0, 2^16, 2^31 and 2^32.
Lengths ==
  {<< h, l >> : h \in {0, 1, 32767, 32768, 65535, 65536, 98304},
               l \in {0, 1, 65535}}

InitSize ==
  /\ pc = "start"
  /\ input = << >>
  /\ tokens = << >>
  /\ cerr = ""
  /\ base = << >>
  /\ data = << >>
  /\ how = "none"
  /\ result = NoResult
  /\ blocks = << >>
  /\ \E n \in Lengths, m \in Lengths :
       footer = [phase |-> "start", written |-> n, length |-> m,
                 bytes |-> << >>, verdict |-> ""]
  /\ poll = NoPoll
  /\ frame = NoFrame

\* writeUint32LE(result, result.length - 4, data.length >>> 0), for data of
\* footer.written bytes.
WriteSize ==
  /\ footer.phase = "start"
  /\ footer' = [footer EXCEPT !.phase = "written",
                              !.bytes = writeUint32LE(ToUint32(footer.written))]
  /\ UNCHANGED << pc, input, tokens, cerr, base, data, how, result, blocks, frame, poll >>

\* The footer checks for decoded bytes whose CRC32 is the footer's and
\* whose number is footer.length.
CheckSize ==
  /\ footer.phase = "written"
  /\ footer' = [footer EXCEPT
                  !.phase = "checked",
                  !.verdict = FooterError(<< 0, 0 >>, footer.length, << 0, 0 >>,
                                          readUint32LE(footer.bytes, 0))]
  /\ UNCHANGED << pc, input, tokens, cerr, base, data, how, result, blocks, frame, poll >>

NextSize == WriteSize \/ CheckSize

SpecSize == InitSize /\ [][NextSize]_vars

\* ------------------------------------------------------------------------
\* gzipCompress on buffers that repeat a four-byte pattern
\* ------------------------------------------------------------------------

\* Longest buffer of each pattern, and the length of the buffer of
\* gzip.test.ts ('round-trips a large, repetitive buffer').
MaxPatternLen == 40
LargeLength == 4096

\* 'ABCD' and the patterns of a byte with an 8-bit code and a byte with a
\* 9-bit code.
Patterns ==
  {<< 65, 66, 67, 68 >>}
    \cup {<< a, b, c, d >> : a \in {65, 200}, b \in {65, 200}, c \in {65, 200},
                             d \in {65, 200}}

\* Short buffers of every pattern; of 'ABCD' also the lengths around the
\* longest match and the length of the test.
RatioInputs ==
  {Repeat(p, n) : p \in Patterns, n \in 0..MaxPatternLen}
    \cup {Repeat(<< 65, 66, 67, 68 >>, n) :
            n \in (MAX_MATCH + MIN_MATCH)..(MAX_MATCH + 8) \cup {LargeLength}}

InitRatio ==
  /\ pc = "start"
  /\ input \in RatioInputs
  /\ tokens = << >>
  /\ cerr = ""
  /\ base = << >>
  /\ data = << >>
  /\ how = "none"
  /\ result = NoResult
  /\ blocks = << >>
  /\ footer = NoFooter
  /\ frame = NoFrame
  /\ poll = NoPoll

SpecRatio == InitRatio /\ [][Compress]_vars

\* ------------------------------------------------------------------------
\* collectTokens on its own, on short buffers and on buffers that repeat
\* three bytes at the far end of the window
\* ------------------------------------------------------------------------

\* 'abc', n zeros, 'abc': the second 'abc' lies n + 3 bytes after the first.
Apart(n) == << 97, 98, 99 >> \o Fill(0, n) \o << 97, 98, 99 >>

\* Buffers of every kind of Inputs, and the two with a repetition at
\* distance WINDOW_SIZE and WINDOW_SIZE + 1.
WindowInputs ==
  SeqsUpTo(MaxLen) \cup TestVectors
    \cup {Periodic(p, n) : p \in 1..MaxPeriod, n \in (MAX_MATCH - 2)..(MAX_MATCH + 4)}
    \cup {Apart(WINDOW_SIZE - 3), Apart(WINDOW_SIZE - 2)}

InitWindow ==
  /\ pc = "start"
  /\ input \in WindowInputs
  /\ tokens = << >>
  /\ cerr = ""
  /\ base = << >>
  /\ data = << >>
  /\ how = "none"
  /\ result = NoResult
  /\ blocks = << >>
  /\ footer = NoFooter
  /\ frame = NoFrame
  /\ poll = NoPoll

Tokenize ==
  /\ pc = "start"
  /\ tokens' = collectTokens(input)
  /\ pc' = "tokenized"
  /\ UNCHANGED << input, cerr, base, data, how, result, blocks, frame, footer, poll >>

SpecWindow == InitWindow /\ [][Tokenize]_vars

\* ------------------------------------------------------------------------
\* PayingKit.waitForPaymentPayload: one call, the transaction service and
\* the clock.  poll holds the call's locals and where it stands:
\*   pc            "delay" (the initial setTimeout), "fetch" (await fetch),
\*                 "check" (the if on the elapsed time), "sleep" (the
\*                 setTimeout of the loop), "resolved", "rejected"
\*   timeoutMs     options.timeoutMs after the default is applied
\*   elapsed       Date.now() - startTime (values above MaxElapsed are
\*                 held as MaxElapsed)
\*   attempt       the local of that name (values above MaxAttempt are held
\*                 as MaxAttempt)
\*   requestFailed the local of that name
\*   response      the response the last fetch returned
\*   progress      what options.onprogress was last called with
\*   value, text   what the promise settled with: the string it resolved
\*                 with, or the message of what it rejected with and the
\*                 response text put after it
\*   history       for the polls so far (the last three), whether the
\*                 response had status 200; kept for the claims only
\* ------------------------------------------------------------------------

\* A field a JSON body or the options do not hold.
Absent == "<absent>"

POLL_INTERVAL_MS == 2000
MAX_REQUEST_FAILURES == 3

\* The greatest elapsed time and attempt number told apart.
MaxElapsed == 12000
MaxAttempt == 4

\* options.timeoutMs: a number of milliseconds, or Infinity.
Timeouts ==
  {[finite |-> TRUE, ms |-> t] : t \in {0, 4000, 9000}}
    \cup {[finite |-> FALSE, ms |-> 0]}

\* options.initialDelayMs ?? 5000
InitialDelays == {0, 5000}

\* The time a fetch takes.
FetchTimes == {0, 1000}

\* The responses of the service: status 200 with a TransactionState body
\* (result and error may be missing, result may be the empty string), or
\* another status with a text body.
Responses ==
  {[http |-> 200, status |-> st, result |-> x, error |-> Absent, text |-> ""] :
     st \in {"pending", "accepted", "completed", "error"},
     x \in {Absent, "", "cGF5bG9hZA"}}
    \cup {[http |-> 200, status |-> "error", result |-> x, error |-> "declined",
           text |-> ""] : x \in {Absent, "cGF5bG9hZA"}}
    \cup {[http |-> h, status |-> Absent, result |-> Absent, error |-> Absent,
           text |-> t] : h \in {404, 500}, t \in {"", "unavailable"}}

NoResponse ==
  [http |-> 0, status |-> Absent, result |-> Absent, error |-> Absent, text |-> ""]

\* Whether a string field is there and not empty: what `&& data.result`
\* tests.
Truthy(x) == x # Absent /\ x # ""

AddMs(elapsed, ms) == Min(elapsed + ms, MaxElapsed)

Resolve(p, x) == [p EXCEPT !.pc = "resolved", !.value = x]

Reject(p, message, text) ==
  [p EXCEPT !.pc = "rejected", !.value = message, !.text = text]

\* options.onprogress(state)
Progress(p, status) ==
  [p EXCEPT !.progress = [status |-> status, attempt |-> p.attempt],
            !.pc = "check"]

\* Completed without the test of data.result.
CompletedAnyResult(r) == r.status = "completed"

\* data.status === 'completed' && data.result
Completed(r) == r.status = "completed" /\ Truthy(r.result)

\* The branch for a response of status 200, requestFailed set to 0.
OnState(p, r) ==
  IF Completed(r) THEN Resolve(p, r.result)
  ELSE IF r.status = "error"
  THEN Reject(p, IF r.error = Absent THEN "Unknown error during payment processing"
                 ELSE r.error, "")
  ELSE Progress(p, r.status)

\* The branch for a response of another status, requestFailed counted up.
OnFailure(p, r) ==
  IF p.requestFailed >= MAX_REQUEST_FAILURES
  THEN Reject(p, "Failed to fetch transaction status after 3 attempts", r.text)
  ELSE Progress(p, "pending")

\* Failures leaving the count as it is after a response of status 200.
FailuresNoReset(requestFailed, r) ==
  IF r.http = 200 THEN requestFailed ELSE requestFailed + 1

\* requestFailed after response r.
Failures(requestFailed, r) == IF r.http = 200 THEN 0 ELSE requestFailed + 1

\* The loop body from the response to the end of the if on its status.
OnResponse(p, r) ==
  IF r.http = 200 THEN OnState([p EXCEPT !.requestFailed = Failures(@, r)], r)
  ELSE OnFailure([p EXCEPT !.requestFailed = Failures(@, r)], r)

\* Expired for a call that never looks at the clock.
ExpiredNever(elapsed, timeoutMs) == FALSE

\* Date.now() - startTime > timeoutMs; nothing is greater than Infinity.
Expired(elapsed, timeoutMs) == timeoutMs.finite /\ elapsed > timeoutMs.ms

\* The last three entries of a history with one more entry.
Remember(history, ok) ==
  IF Len(history) < 3 THEN Append(history, ok)
  ELSE << history[2], history[3], ok >>

InitPoll ==
  /\ pc = "start"
  /\ input = << >>
  /\ tokens = << >>
  /\ cerr = ""
  /\ base = << >>
  /\ data = << >>
  /\ how = "none"
  /\ result = NoResult
  /\ blocks = << >>
  /\ footer = NoFooter
  /\ frame = NoFrame
  /\ \E t \in Timeouts, d \in InitialDelays :
       poll = [pc |-> "delay", timeoutMs |-> t, initialDelayMs |-> d,
               elapsed |-> 0, attempt |-> 0, requestFailed |-> 0,
               response |-> NoResponse,
               progress |-> [status |-> Absent, attempt |-> 0],
               value |-> Absent, text |-> "", history |-> << >>]

Others == << pc, input, tokens, cerr, base, data, how, result, blocks, frame, footer >>

\* await new Promise((resolve) => setTimeout(resolve, initialDelayMs))
InitialDelay ==
  /\ poll.pc = "delay"
  /\ poll' = [poll EXCEPT !.pc = "fetch",
                          !.elapsed = AddMs(@, poll.initialDelayMs)]
  /\ UNCHANGED Others

\* attempt += 1, the fetch returns response r after dt milliseconds, and the
\* call runs on to the end of the if on the response's status.
Poll ==
  /\ poll.pc = "fetch"
  /\ \E r \in Responses, dt \in FetchTimes :
       poll' = OnResponse([poll EXCEPT
                             !.attempt = Min(@ + 1, MaxAttempt),
                             !.elapsed = AddMs(@, dt),
                             !.response = r,
                             !.history = Remember(@, r.http = 200)], r)
  /\ UNCHANGED Others

\* The fetch rejects (the network fails, or options.signal aborts it), and
\* so does the call.
FetchFails ==
  /\ poll.pc = "fetch"
  /\ \E dt \in FetchTimes, e \in {"fetch failed", "This operation was aborted"} :
       poll' = Reject([poll EXCEPT !.attempt = Min(@ + 1, MaxAttempt),
                                   !.elapsed = AddMs(@, dt)], e, "")
  /\ UNCHANGED Others

\* if (Date.now() - startTime > timeoutMs) throw ...
TimeoutCheck ==
  /\ poll.pc = "check"
  /\ poll' = IF Expired(poll.elapsed, poll.timeoutMs)
             THEN Reject(poll, "Timeout waiting for payment payload", "")
             ELSE [poll EXCEPT !.pc = "sleep"]
  /\ UNCHANGED Others

\* await new Promise((resolve) => setTimeout(resolve, 2000))
Sleep ==
  /\ poll.pc = "sleep"
  /\ poll' = [poll EXCEPT !.pc = "fetch", !.elapsed = AddMs(@, POLL_INTERVAL_MS)]
  /\ UNCHANGED Others

NextPoll == InitialDelay \/ Poll \/ FetchFails \/ TimeoutCheck \/ Sleep

SpecPoll == InitPoll /\ [][NextPoll]_vars

\* Every timer fires and every fetch returns or fails.
SpecPollFair ==
  /\ SpecPoll
  /\ WF_vars(InitialDelay)
  /\ WF_vars(Poll \/ FetchFails)
  /\ WF_vars(TimeoutCheck)
  /\ WF_vars(Sleep)

\* ------------------------------------------------------------------------
\* collectTokens step by step: frame holds the buffer and the locals of the
\* call at the head of the main loop,
\*   st    [position, tokens, head, prev]
\*   via   the action that led here ("init" at the start)
\* ------------------------------------------------------------------------

\* How many times ManyHits repeats 'abcZ'.
MaxHits == 130

\* 'abc1', MaxHits times 'abcZ', 'Q', 'abc1': at the last 'abc1' the chain of
\* 'abc' holds more than MAX_CHAIN_HITS positions, the farthest the only
\* one that matches four bytes.
ManyHits ==
  << 97, 98, 99, 49 >> \o Repeat(<< 97, 98, 99, 90 >>, 4 * MaxHits)
    \o << 81, 97, 98, 99, 49 >>

\* 'abcXbcdeYabcde': at the second 'abc' the match at the next position
\* ('bcde') is longer.
LongerNext ==
  << 97, 98, 99, 88, 98, 99, 100, 101, 89, 97, 98, 99, 100, 101 >>

\* Buffers of every kind of Inputs, ManyHits, LongerNext, and the two with a
\* repetition at distance WINDOW_SIZE and WINDOW_SIZE + 1.
ScanInputs ==
  SeqsUpTo(MaxLen) \cup TestVectors \cup {ManyHits, LongerNext}
    \cup {Periodic(p, n) : p \in 1..MaxPeriod, n \in (MAX_MATCH - 1)..(MAX_MATCH + 4)}
    \cup {Apart(WINDOW_SIZE - 3), Apart(WINDOW_SIZE - 2)}

InitScan ==
  /\ pc = "start"
  /\ input = << >>
  /\ tokens = << >>
  /\ cerr = ""
  /\ base = << >>
  /\ data = << >>
  /\ how = "none"
  /\ result = NoResult
  /\ blocks = << >>
  /\ footer = NoFooter
  /\ poll = NoPoll
  /\ \E d \in ScanInputs :
       frame = [kind |-> "scan", data |-> d, st |-> TokInit(d), via |-> "init"]

\* The iterations ScanAhead takes together.
AheadSteps == 256

\* The next AheadSteps iterations of the main loop, those that start before
\* position limit.
TokRunTo(bytes, st, limit) == TokIter(bytes, st, limit, AheadSteps)

\* One iteration of the main loop (in a buffer longer than the window, one
\* of the last iterations).
Scan ==
  /\ frame.kind = "scan"
  /\ frame.st.position < Len(frame.data)
  /\ Len(frame.data) > WINDOW_SIZE =>
       frame.st.position >= Len(frame.data) - MIN_MATCH
  /\ frame' = [frame EXCEPT !.st = TokStep(frame.data, frame.st), !.via = "step"]
  /\ UNCHANGED << pc, input, tokens, cerr, base, data, how, result, blocks,
                  footer, poll >>

\* In a buffer longer than the window, the iterations up to the last three
\* bytes, AheadSteps of them taken together.
ScanAhead ==
  /\ frame.kind = "scan"
  /\ Len(frame.data) > WINDOW_SIZE
  /\ frame.st.position < Len(frame.data) - MIN_MATCH
  /\ frame' = [frame EXCEPT
                 !.st = TokRunTo(frame.data, frame.st, Len(frame.data) - MIN_MATCH),
                 !.via = "ahead"]
  /\ UNCHANGED << pc, input, tokens, cerr, base, data, how, result, blocks,
                  footer, poll >>

NextScan == Scan \/ ScanAhead

SpecScan == InitScan /\ [][NextScan]_vars

\* The three bytes at position p (0-based) of a buffer.
Trigram(bytes, p) == << bytes[p + 1], bytes[p + 2], bytes[p + 3] >>

\* The positions before upto where the three bytes at position occur, not
\* farther back than the window.
Occurrences(bytes, position, upto) ==
  {q \in 0..(upto - 1) :
     /\ position - q <= WINDOW_SIZE
     /\ Trigram(bytes, q) = Trigram(bytes, position)}

\* The MAX_CHAIN_HITS nearest of them.
Nearest(occ) == {q \in occ : Cardinality({r \in occ : r > q}) < MAX_CHAIN_HITS}

\* How many bytes at q and at position agree, up to maxMatch.
Agree(bytes, position, q, maxMatch) ==
  LET D == {i \in 0..(maxMatch - 1) : bytes[position + i + 1] # bytes[q + i + 1]}
  IN IF D = {} THEN maxMatch ELSE CHOOSE i \in D : \A j \in D : i <= j

\* The longest agreement among the candidates cs, at the nearest of them
\* that reaches it.
LongestAt(bytes, position, cs, maxMatch) ==
  IF cs = {} THEN [length |-> 0, distance |-> 0]
  ELSE LET best == MaxOf({Agree(bytes, position, q, maxMatch) : q \in cs})
       IN [length |-> best,
           distance |-> position
              - MaxOf({q \in cs : Agree(bytes, position, q, maxMatch) = best})]

\* The match at position among the positions before upto: the longest one
\* among the MAX_CHAIN_HITS nearest occurrences within the window.
Longest(bytes, position, upto) ==
  IF position >= Len(bytes) - (MIN_MATCH - 1) THEN [length |-> 0, distance |-> 0]
  ELSE LongestAt(bytes, position, Nearest(Occurrences(bytes, position, upto)),
                 Min(MAX_MATCH, Len(bytes) - position))

\* ------------------------------------------------------------------------
\* BitWriter and BitReader on their own: a caller makes some writeBits
\* calls, takes the bytes, and reads them back with a BitReader.  frame is
\*   calls   the calls to make, each [v, n] for writeBits(v, n)
\*   made    how many of them were made
\*   w       the writer
\*   phase   "write", "read" (the bytes are taken), "thrown" (a peek threw)
\*   bytes   what toUint8Array returned
\*   r       the reader, before the reader as it was before the last
\*           readBits or peekBits, n the width of that call
\*   got     what the readBits calls returned (-1 for one that threw)
\*   peeks   the peekBits calls since the last readBits, peeked what the
\*           last of them returned and earlier what the one before returned
\*           if it had the same width (-1 for none)
\*   follows whether the last readBits came right after a peekBits of the
\*           same width
\*   via     the action that led here
\* ------------------------------------------------------------------------

MaxCalls == 2
MaxWidth == 26
MaxPeeks == 2

\* The widest call for which 7 pending bits and the new ones fit the 32-bit
\* accumulators.
SafeWidth == 32 - 7

Widths == {0, 1, 7, 13, SafeWidth, MaxWidth}

\* The widths peekBits is called with.
PeekWidths == {1, 7, 13}

Values == {5, -1}

RECURSIVE CallSeqs(_)
CallSeqs(k) ==
  IF k = 0 THEN {<< >>}
  ELSE LET S == CallSeqs(k - 1)
       IN S \cup {Append(x, [v |-> v, n |-> n]) :
                    x \in {y \in S : Len(y) = k - 1}, v \in Values, n \in Widths}

InitBits ==
  /\ pc = "start"
  /\ input = << >>
  /\ tokens = << >>
  /\ cerr = ""
  /\ base = << >>
  /\ data = << >>
  /\ how = "none"
  /\ result = NoResult
  /\ blocks = << >>
  /\ footer = NoFooter
  /\ poll = NoPoll
  /\ \E cs \in CallSeqs(MaxCalls) :
       frame = [kind |-> "bits", calls |-> cs, made |-> 0, w |-> NewWriter,
                phase |-> "write", bytes |-> << >>, r |-> NewReader,
                before |-> NewReader, n |-> 0, got |-> << >>, peeks |-> 0,
                peeked |-> -1, earlier |-> -1, follows |-> FALSE,
                via |-> "init"]

\* writer.writeBits(v, n), the next of the calls.
Write ==
  /\ frame.kind = "bits" /\ frame.phase = "write"
  /\ frame.made < Len(frame.calls)
  /\ frame' = [frame EXCEPT
                 !.w = writeBits(frame.w, frame.calls[frame.made + 1].v,
                                 frame.calls[frame.made + 1].n),
                 !.made = frame.made + 1,
                 !.via = "write"]
  /\ UNCHANGED << pc, input, tokens, cerr, base, data, how, result, blocks,
                  footer, poll >>

\* writer.toUint8Array(), which aligns the writer, and new BitReader(bytes).
TakeBytes ==
  /\ frame.kind = "bits" /\ frame.phase = "write"
  /\ frame.made = Len(frame.calls)
  /\ frame' = [frame EXCEPT !.w = WriterAlignToByte(frame.w),
                            !.bytes = toUint8Array(frame.w),
                            !.phase = "read",
                            !.via = "align"]
  /\ UNCHANGED << pc, input, tokens, cerr, base, data, how, result, blocks,
                  footer, poll >>

\* What a call that left the reader as e returned.
Returned(e) == IF e.err # "" THEN -1 ELSE e.value

\* reader.readBits(n), n the width of the next of the calls.
Read ==
  /\ frame.kind = "bits" /\ frame.phase = "read"
  /\ Len(frame.got) < Len(frame.calls)
  /\ \E e \in {readBits(frame.bytes, frame.r, frame.calls[Len(frame.got) + 1].n)} :
       frame' = [frame EXCEPT !.r = e,
                              !.before = frame.r,
                              !.n = frame.calls[Len(frame.got) + 1].n,
                              !.got = Append(frame.got, Returned(e)),
                              !.peeks = 0,
                              !.follows =
                                 /\ frame.via = "peek"
                                 /\ frame.n = frame.calls[Len(frame.got) + 1].n,
                              !.via = "read"]
  /\ UNCHANGED << pc, input, tokens, cerr, base, data, how, result, blocks,
                  footer, poll >>

\* reader.peekBits(n)
Peek ==
  /\ frame.kind = "bits" /\ frame.phase = "read"
  /\ frame.peeks < MaxPeeks
  /\ \E n \in PeekWidths :
       \E e \in {peekBits(frame.bytes, frame.r, n)} :
         frame' = [frame EXCEPT !.r = e,
                                !.before = frame.r,
                                !.n = n,
                                !.peeks = frame.peeks + 1,
                                !.earlier = IF frame.via # "peek" \/ frame.n # n
                                            THEN -1 ELSE frame.peeked,
                                !.peeked = Returned(e),
                                !.phase = IF e.err # "" THEN "thrown" ELSE "read",
                                !.via = "peek"]
  /\ UNCHANGED << pc, input, tokens, cerr, base, data, how, result, blocks,
                  footer, poll >>

NextBits == Write \/ TakeBytes \/ Read \/ Peek

SpecBits == InitBits /\ [][NextBits]_vars

\* ------------------------------------------------------------------------
\* inflateFixed step by step, on streams written bit by bit.  frame is
\*   src     "blocks" (a sequence of blocks) or "distance" (a fixed block
\*           with one length/distance pair, the distance symbol chosen)
\*   blocks  the blocks, symbol the distance symbol (-1 for none)
\*   bytes   the stream, trail the bytes added after its last block
\*   st      the decoder's state (see InflateInit)
\*   at      how many block headers were read
\*   via     the action that led here
\* ------------------------------------------------------------------------

MaxStream == 2
MaxLiterals == 7

\* Blocks of every length modulo 8: fixed blocks of 0..MaxLiterals literals
\* with a 9-bit code, of a literal with an 8-bit code, and with matches
\* without and with extra bits; stored blocks of 0, 1 and 2 bytes.
StepBlocks ==
  {[final |-> FALSE, type |-> "fixed", bytes |-> << >>, flip |-> 0, toks |-> t] :
     t \in {Fill(Literal(200), k) : k \in 0..MaxLiterals}
             \cup {<< Literal(97) >>, << Literal(97), Match(3, 1) >>,
                   << Literal(97), Match(11, 1) >>}}
    \cup {[final |-> FALSE, type |-> "stored", bytes |-> b, flip |-> 0,
           toks |-> << >>] : b \in {<< >>, << 97 >>, << 0, 255 >>}}

RECURSIVE StepSeqs(_)
StepSeqs(n) ==
  IF n = 0 THEN {<< >>}
  ELSE LET S == StepSeqs(n - 1)
       IN S \cup {Append(x, b) : x \in {y \in S : Len(y) = n - 1}, b \in StepBlocks}

\* The sequence with its last block marked final.
FinalLast(bs) == [bs EXCEPT ![Len(bs)].final = TRUE]

\* The bytes added after the last block.
Trails == {<< >>, << 255 >>, << 1, 2 >>}

BlockStreams ==
  {[src |-> "blocks", blocks |-> bs, symbol |-> -1,
    bytes |-> PackBits(StreamBits(bs, 1, << >>)) \o t, trail |-> t] :
     bs \in StepSeqs(MaxStream)
              \cup {FinalLast(x) : x \in StepSeqs(MaxStream) \ {<< >>}},
     t \in Trails}

\* A final fixed block: the literals 'abcd', the length symbol 257 (length
\* 3), the 5-bit code of distance symbol s, zeros for its extra bits, and
\* zeros on, which read as the end-of-block code.
DistanceBits(s) ==
  << 1, 1, 0 >> \o RfcSymbolBits(97) \o RfcSymbolBits(98) \o RfcSymbolBits(99)
    \o RfcSymbolBits(100) \o RfcSymbolBits(257) \o BitsMsb(s, 5) \o Zeros(20)

DistanceStreams ==
  {[src |-> "distance", blocks |-> << >>, symbol |-> s,
    bytes |-> PackBits(DistanceBits(s)), trail |-> << >>] : s \in 0..31}

InitInflate ==
  /\ pc = "start"
  /\ input = << >>
  /\ tokens = << >>
  /\ cerr = ""
  /\ base = << >>
  /\ data = << >>
  /\ how = "none"
  /\ result = NoResult
  /\ blocks = << >>
  /\ footer = NoFooter
  /\ poll = NoPoll
  /\ \E s \in BlockStreams \cup DistanceStreams :
       frame = [kind |-> "inflate", src |-> s.src, blocks |-> s.blocks,
                symbol |-> s.symbol, bytes |-> s.bytes, trail |-> s.trail,
                st |-> InflateInit, at |-> 0, via |-> "init"]

\* A pass of the outer loop up to the choice of the branch, with a stored
\* block if that is the branch, or a pass of the loop of a fixed block.
Inflate ==
  /\ frame.kind = "inflate"
  /\ frame.st.err = "" /\ frame.st.mode # "done"
  /\ frame' = [frame EXCEPT
                 !.st = InflateStep(frame.bytes, frame.st),
                 !.at = IF frame.st.mode = "header" THEN frame.at + 1 ELSE frame.at,
                 !.via = IF frame.st.mode = "header" THEN "header" ELSE "symbol"]
  /\ UNCHANGED << pc, input, tokens, cerr, base, data, how, result, blocks,
                  footer, poll >>

SpecInflate == InitInflate /\ [][Inflate]_vars

\* ------------------------------------------------------------------------
\* Claims
\* ------------------------------------------------------------------------

\* C1: decompressing what gzipCompress returned gives the input back, with
\* no error, for every input (the empty one included).
RoundTrip ==
  (pc = "done" /\ how = "none") => (result.err = "" /\ result.out = input)

RoundTripWitness ==
  /\ pc = "done" /\ how = "none"
  /\ \E i \in 1..Len(tokens) : tokens[i].type = "match"
  /\ result.out = input /\ Len(input) > MAX_MATCH

\* C2: gzipCompress never throws: every match token collectTokens makes has
\* a length in MIN_MATCH..MAX_MATCH that findLengthCode accepts and a
\* distance in 1..WINDOW_SIZE that findDistanceCode accepts, and the ranges
\* of findDistanceCode's codes end at WINDOW_SIZE.
CompressNeverFails ==
  (pc # "start") =>
    /\ cerr = ""
    /\ \A i \in 1..Len(tokens) :
         tokens[i].type = "match" =>
           /\ tokens[i].length \in MIN_MATCH..MAX_MATCH
           /\ tokens[i].distance \in 1..WINDOW_SIZE
           /\ findLengthCode(tokens[i].length).err = ""
           /\ findDistanceCode(tokens[i].distance).err = ""
    /\ findDistanceCode(1).err = ""
    /\ findDistanceCode(WINDOW_SIZE).err = ""
    /\ findDistanceCode(WINDOW_SIZE + 1).err = "Invalid match distance"

CompressNeverFailsWitness ==
  /\ pc = "compressed" /\ cerr = ""
  /\ \E i \in 1..Len(tokens) : tokens[i].type = "match" /\ tokens[i].length = MAX_MATCH
  /\ \E i \in 1..Len(tokens) : tokens[i].type = "match" /\ tokens[i].length = MIN_MATCH

\* The number bytes[o], bytes[o + 1], bytes[o + 2], bytes[o + 3] spell with
\* the least significant byte first, as a word (o is 0-based).
LittleEndian(bytes, o) ==
  << bytes[o + 4] * 256 + bytes[o + 3], bytes[o + 2] * 256 + bytes[o + 1] >>

\* C3: what gzipCompress returns is the ten bytes 1F 8B 08 00 00 00 00 00 00
\* FF, then the DEFLATE payload of the input's tokens, then eight bytes: the
\* CRC32 of the input and the length of the input, both little-endian.
ContainerLayout ==
  (pc # "start" /\ how = "none") =>
    /\ Len(base) = 10 + Len(DeflateTokens(tokens).bytes) + 8
    /\ SubSeq(base, 1, 10) = << 31, 139, 8, 0, 0, 0, 0, 0, 0, 255 >>
    /\ SubSeq(base, 11, Len(base) - 8) = DeflateTokens(tokens).bytes
    /\ LittleEndian(base, Len(base) - 8) = crc32(input)
    /\ LittleEndian(base, Len(base) - 4) = NumW(Len(input))

ContainerLayoutWitness ==
  /\ pc = "compressed" /\ how = "none"
  /\ Len(input) > 256
  /\ Len(base) > 18
  /\ LittleEndian(base, Len(base) - 4) = NumW(Len(input))

\* C4: after bits of the CRC32 field of a gzipCompress output are changed,
\* gzipDecompress throws 'CRC32 mismatch'; after bits of its size field are
\* changed, it throws 'Size mismatch'.
FooterValidation ==
  (pc = "done") =>
    /\ (how = "crc") => (result.err = "CRC32 mismatch")
    /\ (how = "size") => (result.err = "Size mismatch")

FooterValidationWitness ==
  /\ pc = "done" /\ how = "size"
  /\ Len(input) = 128
  /\ data[Len(data) - 3] = BitXor(base[Len(base) - 3], 255)
  /\ result.err = "Size mismatch"

\* C5 as stated: gzipDecompress of a gzipCompress output cut off before its
\* footer throws 'Unexpected end of stream', for every input.
TruncationAlwaysEndOfStream ==
  (pc = "done" /\ how = "cut") => (result.err = "Unexpected end of stream")

\* C5, amended: gzipDecompress of a gzipCompress output cut off before its
\* footer throws 'Unexpected end of stream' when at least 18 bytes are left
\* and 'Invalid gzip data' when fewer are left; it never returns a result.
TruncationDetected ==
  (pc = "done" /\ how = "cut") =>
    /\ Len(data) >= 18 => result.err = "Unexpected end of stream"
    /\ Len(data) < 18 => result.err = "Invalid gzip data"

TruncationDetectedWitness ==
  /\ pc = "done" /\ how = "cut"
  /\ Len(data) >= 18 /\ Len(data) = Len(base) - 8
  /\ result.err = "Unexpected end of stream"

\* C6: a block header with BTYPE 10 or 11 makes the decoder throw
\* 'Unsupported DEFLATE block type' at once: with the type bits of a
\* gzipCompress output forced to 10 or 11 nothing is decoded, and with such
\* a header after a first block the output is that of the first block.
UnsupportedBlockType ==
  (pc = "done") =>
    /\ (how \in {"btype10", "btype11"}) =>
         (result.err = "Unsupported DEFLATE block type" /\ result.out = << >>)
    /\ (how \in {"chain10", "chain11"}) =>
         (result.err = "Unsupported DEFLATE block type" /\ result.out = input)

UnsupportedBlockTypeWitness ==
  /\ pc = "done" /\ how = "chain10"
  /\ Len(input) > 0
  /\ result.err = "Unsupported DEFLATE block type" /\ result.out = input

WrongMagic(bytes) ==
  bytes[1] # 31 \/ bytes[2] # 139 \/ bytes[3] # 8

\* C7: gzipDecompress throws 'Invalid gzip data' for every buffer shorter
\* than 18 bytes, whatever it holds, and 'Unsupported gzip header' for every
\* buffer of at least 18 bytes whose first three bytes are not 1F 8B 08.
HeaderChecks ==
  (pc = "done") =>
    /\ Len(data) < 18 => result.err = "Invalid gzip data"
    /\ (Len(data) >= 18 /\ WrongMagic(data)) => result.err = "Unsupported gzip header"

HeaderChecksWitness ==
  /\ pc = "done" /\ how = "raw"
  /\ Len(data) = 17 /\ WrongMagic(data)
  /\ result.err = "Invalid gzip data"

\* The number of bytes the first k tokens stand for.
\* The tokens are taken in halves only to keep the evaluation shallow.
RECURSIVE EmittedIn(_, _, _)
EmittedIn(toks, from, count) ==
  IF count = 0 THEN 0
  ELSE IF count = 1
  THEN (IF toks[from + 1].type = "literal" THEN 1 ELSE toks[from + 1].length)
  ELSE EmittedIn(toks, from, count \div 2)
         + EmittedIn(toks, from + (count \div 2), count - (count \div 2))

Emitted(toks, k) == EmittedIn(toks, 0, k)

\* Token k is a match whose distance is greater than the number of bytes
\* the tokens before it stand for.
TooFar(toks, k) ==
  toks[k].type = "match" /\ toks[k].distance > Emitted(toks, k - 1)

\* C8: in a fixed Huffman block, the first length/distance pair whose
\* distance is greater than the number of bytes emitted so far makes
\* decoding throw 'Invalid match distance', with nothing appended for it.
BackReferenceBound ==
  (pc = "done" /\ how = "craft") =>
    \A k \in 1..Len(tokens) :
      (TooFar(tokens, k) /\ \A j \in 1..(k - 1) : ~TooFar(tokens, j)) =>
        /\ result.err = "Invalid match distance"
        /\ Len(result.out) = Emitted(tokens, k - 1)

BackReferenceBoundWitness ==
  /\ pc = "done" /\ how = "craft"
  /\ Len(tokens) = 2 /\ tokens[1].type = "literal" /\ TooFar(tokens, 2)
  /\ result.err = "Invalid match distance" /\ result.out = << tokens[1].value >>

\* C9: a decoded match of length L and distance d appends L bytes, each
\* equal to the output byte d places before it, bytes appended by the same
\* copy included (d < L).
OverlappingCopy ==
  (pc = "done" /\ how = "craft" /\ \A k \in 1..Len(tokens) : ~TooFar(tokens, k)) =>
    /\ result.err = ""
    /\ Len(result.out) = Emitted(tokens, Len(tokens))
    /\ \A k \in 1..Len(tokens) :
         tokens[k].type = "match" =>
           \A i \in 1..tokens[k].length :
             result.out[Emitted(tokens, k - 1) + i]
               = result.out[Emitted(tokens, k - 1) + i - tokens[k].distance]

OverlappingCopyWitness ==
  /\ pc = "done" /\ how = "craft"
  /\ tokens = << Literal(97), Match(10, 1) >>
  /\ result.err = ""
  /\ result.out = << 97, 97, 97, 97, 97, 97, 97, 97, 97, 97, 97 >>

\* C10: for a stream whose flags byte sets any of FEXTRA, FNAME, FCOMMENT
\* and FHCRC and that holds those fields, gzipDecompress does what it does
\* for the same payload and footer with flags 0 and no fields, whatever the
\* fields hold.
OptionalFieldsSkipped ==
  (pc = "done" /\ how = "fields") => result = gzipDecompress(base)

OptionalFieldsSkippedWitness ==
  /\ pc = "done" /\ how = "fields"
  /\ data[4] = 30 /\ Len(data) = Len(base) + 4 + 4 + 2 + 2
  /\ result.err = "" /\ Len(result.out) > 0

\* C11: when the optional header fields (the FEXTRA length, a FNAME or
\* FCOMMENT with no terminating zero before the footer, FHCRC) end past the
\* start of the last eight bytes, gzipDecompress throws 'Incomplete gzip
\* payload' and decodes nothing: the payload never overlaps the footer.
FieldsOverrunFooter ==
  (pc = "done" /\ how = "overrun") =>
    (result.err = "Incomplete gzip payload" /\ result.out = << >>)

FieldsOverrunFooterWitness ==
  /\ pc = "done" /\ how = "overrun"
  /\ data[4] = 8 /\ Len(data) = 18 /\ data[11] = 110 /\ data[14] = 0
  /\ result.err = "Incomplete gzip payload"

\* The output of the blocks before block k, and whether the decoder gets to
\* block k: no block before it is marked final or malformed.
RECURSIVE OutBefore(_, _)
OutBefore(bs, k) ==
  IF k = 1 THEN << >> ELSE BlockMeaning(bs[k - 1], OutBefore(bs, k - 1)).out

Reaches(bs, k) ==
  \A j \in 1..(k - 1) :
    ~bs[j].final /\ BlockMeaning(bs[j], OutBefore(bs, j)).err = ""

\* C12: a stored block (BTYPE 00) the decoder gets to is read from the next
\* byte boundary as LEN, NLEN and LEN bytes: when LEN XOR 0xFFFF is not NLEN
\* decoding throws 'Stored block length mismatch' with nothing appended,
\* and otherwise exactly the LEN bytes are appended, unchanged, to the
\* output of the blocks before.
StoredBlockCopied ==
  (pc = "done" /\ how = "blocks") =>
    \A k \in 1..Len(blocks) :
      (Reaches(blocks, k) /\ blocks[k].type = "stored") =>
        IF BitXor(Len(blocks[k].bytes), 65535)
             # BitXor(BitXor(Len(blocks[k].bytes), 65535), blocks[k].flip)
        THEN /\ result.err = "Stored block length mismatch"
             /\ result.out = OutBefore(blocks, k)
        ELSE /\ Len(result.out) >= Len(OutBefore(blocks, k)) + Len(blocks[k].bytes)
             /\ SubSeq(result.out, 1, Len(OutBefore(blocks, k))) = OutBefore(blocks, k)
             /\ SubSeq(result.out, Len(OutBefore(blocks, k)) + 1,
                       Len(OutBefore(blocks, k)) + Len(blocks[k].bytes))
                  = blocks[k].bytes
             /\ (blocks[k].final \/ k = Len(blocks)) =>
                  Len(result.out) = Len(OutBefore(blocks, k)) + Len(blocks[k].bytes)

StoredBlockCopiedWitness ==
  /\ pc = "done" /\ how = "blocks"
  /\ Len(blocks) = 2
  /\ ~blocks[1].final /\ blocks[1].toks = << Literal(97) >>
  /\ blocks[2].final /\ blocks[2].bytes = << 0, 255, 97 >> /\ blocks[2].flip = 0
  /\ result = [err |-> "", out |-> << 97, 0, 255, 97 >>]

\* C13: the decoder takes the blocks in order, goes on after a block whose
\* BFINAL is 0 and stops after the first block whose BFINAL is 1: what comes
\* back is the outputs of the blocks up to that one, one after the other (a
\* match of a later block copying bytes of an earlier one), blocks after it
\* are not read, and a stream with no such block does not come back.
BlocksInOrder ==
  (pc = "done" /\ how = "blocks") => result = BlocksMeaning(blocks, 1, << >>)

BlocksInOrderWitness ==
  /\ pc = "done" /\ how = "blocks"
  /\ Len(blocks) = 2
  /\ ~blocks[1].final /\ blocks[1].bytes = << 0, 255, 97 >> /\ blocks[1].flip = 0
  /\ blocks[2].final /\ blocks[2].toks = << Match(4, 3) >>
  /\ result = [err |-> "", out |-> << 0, 255, 97, 0, 255, 97, 0 >>]

\* C14: the size field gzipCompress writes is the input length modulo 2^32,
\* and gzipDecompress throws 'Size mismatch' exactly when the decoded
\* length modulo 2^32 is not the unsigned number the field holds, for every
\* decoded length, those of 2^31 and more included.
SizeModulo ==
  /\ footer.phase \in {"written", "checked"} =>
       /\ footer.bytes[1] + 256 * footer.bytes[2] = footer.written[2]
       /\ footer.bytes[3] + 256 * footer.bytes[4] = footer.written[1] % 65536
  /\ footer.phase = "checked" =>
       ((footer.verdict = "Size mismatch")
          <=> (<< footer.length[1] % 65536, footer.length[2] >>
                 # << footer.written[1] % 65536, footer.written[2] >>))

\* C15 as stated: compressing n bytes of a repeating four-byte pattern gives
\* fewer than n + 18 bytes, for every n.
PatternShorter ==
  pc = "compressed" => (cerr = "" /\ Len(base) < Len(input) + 18)

\* C15: compressing n bytes of a repeating four-byte pattern gives fewer
\* than n + 18 bytes for every n from 9 on, the 4096 bytes of 'ABCD' of the
\* test among them.
PatternShorterFromNine ==
  (pc = "compressed" /\ Len(input) >= 9) =>
    (cerr = "" /\ Len(base) < Len(input) + 18)

PatternShorterFromNineWitness ==
  /\ pc = "compressed"
  /\ Len(input) = LargeLength /\ SubSeq(input, 1, 4) = << 65, 66, 67, 68 >>
  /\ cerr = "" /\ Len(base) < LargeLength + 18

Settled == poll.pc \in {"resolved", "rejected"}

\* C16: waitForPaymentPayload resolves only with the result of a response
\* of status 200 whose body has status 'completed' and a result that is not
\* empty; a response of status 200 with status 'error' rejects the call; no
\* other response (pending, accepted, completed with no result, a status
\* other than 200) resolves it.
ResolvesOnlyCompleted ==
  /\ poll.pc = "resolved" =>
       /\ poll.response.http = 200
       /\ poll.response.status = "completed"
       /\ poll.response.result \notin {Absent, ""}
       /\ poll.value = poll.response.result
  /\ (poll.response.http = 200 /\ poll.response.status = "error") =>
       poll.pc = "rejected"

ResolvesOnlyCompletedWitness ==
  /\ poll.pc = "resolved" /\ poll.attempt >= 2
  /\ poll.progress.status = "accepted"
  /\ poll.value = "cGF5bG9hZA"

\* After a poll that neither resolved nor rejected: with the elapsed time
\* greater than timeoutMs the call rejects with 'Timeout waiting for payment
\* payload', and otherwise it sleeps and polls again.
AtCheck ==
  poll.pc = "check" =>
    IF poll.timeoutMs.finite /\ poll.elapsed > poll.timeoutMs.ms
    THEN poll'.pc = "rejected" /\ poll'.value = "Timeout waiting for payment payload"
    ELSE poll'.pc = "sleep"

\* C17 as stated: when every fetch returns and the clock advances, every
\* call is settled in the end, and a poll that ends unsettled with the
\* elapsed time greater than timeoutMs is followed by the rejection
\* 'Timeout waiting for payment payload', not by another poll.
EventuallySettles == <>Settled /\ [][AtCheck]_vars

\* C17: the same for every call whose timeoutMs is a finite number.
EventuallySettlesFinite ==
  (poll.timeoutMs.finite => <>Settled) /\ [][AtCheck]_vars

EventuallySettlesFiniteWitness ==
  /\ poll.pc = "rejected" /\ poll.value = "Timeout waiting for payment payload"
  /\ poll.timeoutMs.finite /\ poll.elapsed > poll.timeoutMs.ms
  /\ poll.attempt >= 3 /\ poll.response.status = "pending"

\* The number of polls at the end of the history that failed.
RECURSIVE Trailing(_)
Trailing(history) ==
  IF Len(history) = 0 \/ history[Len(history)] THEN 0
  ELSE 1 + Trailing(SubSeq(history, 1, Len(history) - 1))

FixedBlockLayout ==
  (pc = "compressed" /\ cerr = "") =>
    /\ SubSeq(base, 11, Len(base) - 8)
         = PackBits(<< 1, 1, 0 >> \o RfcTokensBits(tokens, 1) \o RfcSymbolBits(256))
    /\ base[11] % 8 = 3

FixedBlockLayoutWitness ==
  /\ pc = "compressed" /\ cerr = ""
  /\ \E k \in 1..Len(tokens) : tokens[k].type = "match" /\ tokens[k].length > 10
  /\ \E k \in 1..Len(tokens) : tokens[k].type = "literal" /\ tokens[k].value >= 144
  /\ Len(RfcTokensBits(tokens, 1)) % 8 = 1
  /\ base[11] % 8 = 3

\* C20: the tokens collectTokens makes are a valid LZ77 parse of the input:
\* every match has a length from 3 to 258 and a distance from 1 to 32768
\* that is not greater than the number of bytes the tokens before it stand
\* for, and expanding the tokens in order gives the input back.
ValidParse ==
  pc = "tokenized" =>
    /\ \A k \in 1..Len(tokens) :
         tokens[k].type = "match" =>
           /\ tokens[k].length \in MIN_MATCH..MAX_MATCH
           /\ tokens[k].distance \in 1..WINDOW_SIZE
           /\ tokens[k].distance <= Emitted(tokens, k - 1)
    /\ Expand(tokens, 1, << >>) = input

ValidParseWitness ==
  /\ pc = "tokenized"
  /\ Len(input) = WINDOW_SIZE + 3
  /\ tokens[5] = Match(MAX_MATCH, 1)
  /\ tokens[Len(tokens)] = Match(MIN_MATCH, WINDOW_SIZE)
  /\ Expand(tokens, 1, << >>) = input


\* The positions insertPosition has linked when the main loop stands at
\* position: those before it with three bytes remaining.
Linked(bytes, position) == Min(position, hashableLimit(bytes))

\* prev[p] of a linked position p is the nearest earlier position with the
\* same three bytes that lies within the window of p, -1 if there is none.
LinkedBack(bytes, prev, p) ==
  /\ prev[p + 1] \in -1..(p - 1)
  /\ prev[p + 1] # -1 =>
       /\ Trigram(bytes, prev[p + 1]) = Trigram(bytes, p)
       /\ p - prev[p + 1] <= WINDOW_SIZE
  /\ \A r \in (prev[p + 1] + 1)..(p - 1) :
       Trigram(bytes, r) = Trigram(bytes, p) => p - r > WINDOW_SIZE

\* The last linked position with the three bytes of p is p.
LastOfKey(bytes, p, linked) ==
  \A r \in (p + 1)..(linked - 1) : Trigram(bytes, r) # Trigram(bytes, p)

\* C21: at the head of every iteration of the main loop, every position
\* before the current one with at least 3 bytes remaining has been inserted
\* into the hash chain once and in increasing order (its link leads to the
\* nearest earlier position of its key, and the last position of a key is
\* the key's head unless the window has passed it), positions covered by a
\* match included; a position with fewer than 3 bytes remaining is never
\* inserted and never starts a match.
ChainCoverage ==
  frame.kind = "scan" =>
    /\ \A p \in 0..(Len(frame.data) - 1) :
         IF p < Linked(frame.data, frame.st.position)
         THEN LinkedBack(frame.data, frame.st.prev, p)
         ELSE /\ frame.st.prev[p + 1] = -1
              /\ \A k \in DOMAIN frame.st.head : frame.st.head[k] # p
    /\ \A k \in DOMAIN frame.st.head :
         /\ frame.st.head[k] \in 0..(Linked(frame.data, frame.st.position) - 1)
         /\ computeKey(frame.data, frame.st.head[k]) = k
         /\ LastOfKey(frame.data, frame.st.head[k],
                      Linked(frame.data, frame.st.position))
    /\ \A p \in 0..(Linked(frame.data, frame.st.position) - 1) :
         LastOfKey(frame.data, p, Linked(frame.data, frame.st.position)) =>
           \/ HeadGet(frame.st.head, computeKey(frame.data, p)) = p
           \/ /\ computeKey(frame.data, p) \notin DOMAIN frame.st.head
              /\ frame.st.position - p > WINDOW_SIZE
    /\ Emitted(frame.st.tokens, Len(frame.st.tokens)) = frame.st.position
    /\ \A k \in 1..Len(frame.st.tokens) :
         frame.st.tokens[k].type = "match" =>
           Emitted(frame.st.tokens, k - 1) < hashableLimit(frame.data)

ChainCoverageWitness ==
  /\ frame.kind = "scan" /\ frame.via = "step"
  /\ frame.st.tokens[Len(frame.st.tokens)] = Match(MAX_MATCH, 1)
  /\ frame.st.position = hashableLimit(frame.data)
  /\ frame.st.position < Len(frame.data)
  /\ frame.st.prev[frame.st.position] = frame.st.position - 2
  /\ frame.st.prev[frame.st.position + 1] = -1


\* C22: in an iteration at position P where findBestMatch found a match
\* of length 3 or more, the tokenizer emits a literal for the byte at P and
\* advances by one exactly when the best match at P + 1 (among the
\* positions inserted so far) is strictly longer than the one at P;
\* otherwise it emits the match found at P and advances by its length.
LazyMatching ==
  [][(frame.kind = "scan" /\ frame'.via = "step"
        /\ findBestMatch(frame.data, frame.st, frame.st.position).length >= MIN_MATCH)
     => IF Longest(frame.data, frame.st.position + 1, frame.st.position).length
             > Longest(frame.data, frame.st.position, frame.st.position).length
        THEN /\ frame'.st.tokens
                  = Append(frame.st.tokens,
                           Literal(frame.data[frame.st.position + 1]))
             /\ frame'.st.position = frame.st.position + 1
        ELSE /\ frame'.st.tokens
                  = Append(frame.st.tokens,
                           Match(Longest(frame.data, frame.st.position,
                                         frame.st.position).length,
                                 Longest(frame.data, frame.st.position,
                                         frame.st.position).distance))
             /\ frame'.st.position
                  = frame.st.position
                      + Longest(frame.data, frame.st.position,
                                frame.st.position).length]_vars

\* A literal was emitted at a position where a match was found, the match
\* at the next position being longer.
LazyMatchingWitness ==
  /\ frame.kind = "scan" /\ frame.via = "step"
  /\ frame.st.position >= 1
  /\ frame.st.tokens[Len(frame.st.tokens)].type = "literal"
  /\ Longest(frame.data, frame.st.position - 1, frame.st.position - 1).length
       >= MIN_MATCH
  /\ Longest(frame.data, frame.st.position, frame.st.position - 1).length
       > Longest(frame.data, frame.st.position - 1, frame.st.position - 1).length


\* The candidate loop of findBestMatch(position) when it ends, run on the
\* chains of st.
Walked(bytes, st, position) ==
  ChainWalk(bytes, st.prev, position, Min(MAX_MATCH, Len(bytes) - position),
            [candidate |-> pruneHead(st.head, st.prev,
                                     computeKey(bytes, position), position).node,
             bestLength |-> 0, bestDistance |-> 0, attempts |-> 0,
             done |-> FALSE],
            MAX_CHAIN_HITS + 1)

\* findBestMatch(position) returns the longest match among the
\* MAX_CHAIN_HITS nearest occurrences before upto that lie in the window,
\* at the nearest of them that reaches it, and its loop ends within
\* MAX_CHAIN_HITS counted candidates.
SearchAt(bytes, st, position, upto) ==
  /\ findBestMatch(bytes, st, position).length
       = Longest(bytes, position, upto).length
  /\ findBestMatch(bytes, st, position).distance
       = Longest(bytes, position, upto).distance
  /\ findBestMatch(bytes, st, position).distance <= WINDOW_SIZE
  /\ position < hashableLimit(bytes) =>
       /\ Walked(bytes, st, position).done
       /\ Walked(bytes, st, position).attempts <= MAX_CHAIN_HITS

\* C23: for every position with at least 3 bytes remaining (the current
\* one, and the next one as the lazy check looks at it), findBestMatch
\* walks at most 128 chain candidates, none farther back than 32768, and
\* returns the greatest match length among them, capped at min(258, bytes
\* remaining), at the nearest candidate on ties; the early skip loses no
\* longer match.
BoundedSearch ==
  (frame.kind = "scan" /\ frame.st.position < Len(frame.data)) =>
    /\ SearchAt(frame.data, frame.st, frame.st.position, frame.st.position)
    /\ frame.st.position + 1 < Len(frame.data) =>
         SearchAt(frame.data,
                  [frame.st EXCEPT
                     !.head = findBestMatch(frame.data, frame.st,
                                            frame.st.position).head],
                  frame.st.position + 1, frame.st.position)

\* At the last 'abc1' of ManyHits the chain is longer than MAX_CHAIN_HITS,
\* and the only occurrence that agrees in four bytes is out of reach.
BoundedSearchWitness ==
  /\ frame.kind = "scan" /\ frame.data = ManyHits
  /\ frame.st.position = Len(frame.data) - 4
  /\ Cardinality(Occurrences(frame.data, frame.st.position, frame.st.position))
       > MAX_CHAIN_HITS
  /\ Agree(frame.data, frame.st.position, 0, 4) = 4
  /\ findBestMatch(frame.data, frame.st, frame.st.position).length = MIN_MATCH
  /\ findBestMatch(frame.data, frame.st, frame.st.position).distance = 5
  /\ Walked(frame.data, frame.st, frame.st.position).attempts = MAX_CHAIN_HITS


\* The bits the first k calls wrote.
RECURSIVE BitsWritten(_, _)
BitsWritten(calls, k) ==
  IF k = 0 THEN 0 ELSE BitsWritten(calls, k - 1) + calls[k].n

\* The writer holds fewer than 8 pending bits, the bytes taken are the bits
\* written padded with zeros to a whole byte, and each readBits(n) made
\* returned the v of its writeBits(v, n) modulo 2^n.
WrittenIsRead ==
  /\ frame.w.bitLength < 8
  /\ frame.phase # "write" =>
       /\ Len(frame.bytes) = (BitsWritten(frame.calls, Len(frame.calls)) + 7) \div 8
       /\ BitsWritten(frame.calls, Len(frame.calls)) % 8 # 0 =>
            frame.bytes[Len(frame.bytes)]
              < Pow2(BitsWritten(frame.calls, Len(frame.calls)) % 8)
  /\ \A k \in 1..Len(frame.got) :
       frame.got[k] = frame.calls[k].v % Pow2(frame.calls[k].n)

\* C24 as stated: for any sequence of writeBits(v, n) calls followed by
\* alignToByte, the writer holds fewer than 8 pending bits after each call,
\* the unused high bits of the final byte are zero, and a BitReader over
\* the bytes returns v mod 2^n from readBits(n) called in the same order.
BitRoundTrip == frame.kind = "bits" => WrittenIsRead

\* C24, amended: the same for sequences of calls none of which writes more
\* than 25 bits.
BitRoundTripNarrow ==
  (frame.kind = "bits" /\ \A k \in 1..Len(frame.calls) : frame.calls[k].n <= SafeWidth)
    => WrittenIsRead

\* 7 bits and then 25 bits were written and read back.
BitRoundTripNarrowWitness ==
  /\ frame.kind = "bits" /\ frame.phase = "read"
  /\ Len(frame.calls) = 2 /\ Len(frame.got) = 2
  /\ frame.calls[1] = [v |-> -1, n |-> 7]
  /\ frame.calls[2] = [v |-> -1, n |-> SafeWidth]
  /\ frame.got = << 127, 33554431 >>
  /\ frame.bytes = << 255, 255, 255, 255 >>


\* Repeated peeks of one width returned the same value, and a readBits
\* right after a peekBits of its width returned what was peeked.
PeekedIsRead ==
  /\ (frame.via = "peek" /\ frame.earlier # -1) => frame.peeked = frame.earlier
  /\ (frame.via = "read" /\ frame.follows) =>
       frame.got[Len(frame.got)] = frame.peeked

\* C25 as stated: a peekBits call leaves the byte cursor (offset) and the
\* buffered bits unchanged, so repeated peeks return the same value and a
\* following readBits(n) returns the value that was peeked.
PeekLeavesCursor ==
  frame.kind = "bits" =>
    /\ (frame.via = "peek" /\ frame.r.err = "") =>
         /\ frame.r.offset = frame.before.offset
         /\ frame.r.bitBuffer = frame.before.bitBuffer
         /\ frame.r.bitLength = frame.before.bitLength
    /\ PeekedIsRead

\* The reader's place in the stream, in bits: the bytes taken from the
\* input less the bits still buffered.
BitPosition(r) == 8 * r.offset - r.bitLength

\* C25, amended: peekBits(n) does not advance the reader's place in the
\* stream and readBits(n) advances it by n bits: a peekBits call leaves the
\* bit position (8 * offset - bitLength) and the bits that were buffered
\* unchanged, though it moves offset and adds to the buffer when fewer than
\* n bits were buffered; repeated peeks return the same value and a
\* following readBits(n) returns the value that was peeked.
PeekLeavesPosition ==
  frame.kind = "bits" =>
    /\ (frame.via = "peek" /\ frame.r.err = "") =>
         /\ BitPosition(frame.r) = BitPosition(frame.before)
         /\ frame.r.bitBuffer % Pow2(frame.before.bitLength)
              = frame.before.bitBuffer
         /\ IF frame.before.bitLength >= frame.n
            THEN /\ frame.r.offset = frame.before.offset
                 /\ frame.r.bitBuffer = frame.before.bitBuffer
                 /\ frame.r.bitLength = frame.before.bitLength
            ELSE /\ frame.r.offset > frame.before.offset
                 /\ frame.r.bitLength > frame.before.bitLength
    /\ (frame.via = "read" /\ frame.r.err = "") =>
         BitPosition(frame.r) = BitPosition(frame.before) + frame.n
    /\ PeekedIsRead

\* readBits(13) on a reader whose peekBits(13) had taken two bytes from the
\* input returned what was peeked.
PeekLeavesPositionWitness ==
  /\ frame.kind = "bits" /\ frame.via = "read" /\ frame.follows
  /\ frame.n = 13 /\ frame.got = << 8191 >> /\ frame.peeked = 8191
  /\ frame.before.offset = 2 /\ frame.before.bitLength = 16
  /\ frame.r.offset = 2 /\ frame.r.bitLength = 3


\* The reader after the two readBits calls of a block header.
AfterHeader(bytes, r) == readBits(bytes, readBits(bytes, r, 1), 2)

\* The bit of the stream at which block k starts.
BlockStart(bs, k) == Len(StreamBits(SubSeq(bs, 1, k - 1), 1, << >>))

\* The reader h stands after the header of stored block k and holds at
\* most 7 bits, all of the byte the header ends in.
AlignedAt(bs, k, h) ==
  /\ h.bitLength <= 7
  /\ h.offset = ((BlockStart(bs, k) + 2) \div 8) + 1
  /\ 8 * h.offset - h.bitLength = BlockStart(bs, k) + 3

\* The decoder, in state st before the header of stored block k, goes
\* through the block to state nx: LEN, NLEN and the bytes are taken from
\* the byte after the one the header ends in, and the bytes are appended.
StoredRead(bs, k, st, nx) ==
  /\ nx.err = ""
  /\ nx.out = st.out \o bs[k].bytes
  /\ nx.reader.bitLength = 0
  /\ nx.reader.offset = ((BlockStart(bs, k) + 2) \div 8) + 5 + Len(bs[k].bytes)

\* C26: wherever the decoder calls alignToByte before a stored block, after
\* any sequence of stored and fixed Huffman blocks (ones decoded through
\* the 9-bit look-ahead included), the reader holds at most 7 buffered
\* bits, so the alignment discards no whole input byte and LEN is read from
\* the first byte after the block header.
ReaderAligned ==
  (/\ frame.kind = "inflate" /\ frame.src = "blocks"
   /\ frame.st.err = "" /\ frame.st.mode = "header"
   /\ frame.at < Len(frame.blocks)
   /\ frame.blocks[frame.at + 1].type = "stored")
    => /\ AfterHeader(frame.bytes, frame.st.reader).err = ""
       /\ AfterHeader(frame.bytes, frame.st.reader).value = 0
       /\ AlignedAt(frame.blocks, frame.at + 1,
                    AfterHeader(frame.bytes, frame.st.reader))
       /\ StoredRead(frame.blocks, frame.at + 1, frame.st,
                     InflateStep(frame.bytes, frame.st))

\* After a fixed block of four 9-bit literals the header of a stored block
\* leaves 7 bits in the reader.
ReaderAlignedWitness ==
  /\ frame.kind = "inflate" /\ frame.src = "blocks"
  /\ frame.st.err = "" /\ frame.st.mode = "header" /\ frame.at = 1
  /\ Len(frame.blocks) = 2
  /\ frame.blocks[1].toks = Fill(Literal(200), 4)
  /\ frame.blocks[2].type = "stored" /\ frame.blocks[2].bytes = << 0, 255 >>
  /\ frame.st.out = Fill(200, 4)
  /\ AfterHeader(frame.bytes, frame.st.reader).bitLength = 7
  /\ AfterHeader(frame.bytes, frame.st.reader).offset = 7


\* C29 as stated: every byte the decoder appends for a length/distance
\* pair is a copy of an earlier output byte: for every distance symbol
\* 0..31 the decoder either appends bytes each equal to the output byte
\* `distance` positions before it, for a distance of 1 or more, or fails
\* with an error; it never appends a byte that has no source in the output.
CopiesHaveSource ==
  [][(/\ frame.kind = "inflate" /\ frame.st.mode = "fixed"
      /\ frame'.st.err = ""
      /\ Len(frame'.st.out) >= Len(frame.st.out) + MIN_MATCH)
     => \E distance \in 1..Len(frame.st.out) :
          \A i \in (Len(frame.st.out) + 1)..Len(frame'.st.out) :
            frame'.st.out[i] = frame'.st.out[i - distance]]_vars


\* ------------------------------------------------------------------------
\* gzipDecompress on two streams that differ only after the final block:
\* blocks is a sequence of blocks in which the decoder gets to the end of a
\* block marked final, and frame is
\*   payload  the blocks' bytes up to the end of the final block, plain
\*            what the footer is made for (both set by the first call)
\*   first    what gzipDecompress did with payload and the footer, nothing
\*            between them; first.read the payload bytes inflateFixed took
\*            from its input
\*   second   the same for a second call with the bytes second.trail
\*            between payload and footer
\* ------------------------------------------------------------------------

\* The decoder gets to the end of a block marked final.
FinalReached(bs) ==
  \E k \in 1..Len(bs) :
    /\ Reaches(bs, k) /\ bs[k].final
    /\ BlockMeaning(bs[k], OutBefore(bs, k)).err = ""

\* The blocks up to the first one marked final.
RECURSIVE UpToFinal(_, _)
UpToFinal(bs, k) ==
  IF bs[k].final THEN SubSeq(bs, 1, k) ELSE UpToFinal(bs, k + 1)

NoCall == [trail |-> << >>, read |-> -1, result |-> NoResult]

InitTrailing ==
  /\ pc = "start"
  /\ input = << >>
  /\ tokens = << >>
  /\ cerr = ""
  /\ base = << >>
  /\ data = << >>
  /\ how = "none"
  /\ result = NoResult
  /\ blocks \in BlockSeqs(MaxBlocks)
  /\ FinalReached(blocks)
  /\ footer = NoFooter
  /\ poll = NoPoll
  /\ frame = [kind |-> "trailing", payload |-> << >>, plain |-> << >>,
              first |-> NoCall, second |-> NoCall]

\* gzipDecompress(stream), the stream being the payload, the bytes t and
\* the footer: what it did, and how far inflateFixed read.
Call(payload, plain, t) ==
  [trail |-> t,
   read |-> InflateRun(payload \o t, InflateInit,
                       3 * Len(payload \o t) + 1).reader.offset,
   result |-> gzipDecompress(Sealed(payload \o t, plain))]

\* The blocks up to the final one are written and sealed with a footer made
\* for their output or for other bytes, and the stream is decompressed.
DecompressFirst ==
  /\ frame.kind = "trailing" /\ frame.first = NoCall
  /\ \E payload \in {PackBits(StreamBits(UpToFinal(blocks, 1), 1, << >>))} :
       \E wrong \in {<< >>, << 0 >>} :
         \E plain \in {BlocksMeaning(blocks, 1, << >>).out \o wrong} :
           frame' = [frame EXCEPT !.payload = payload, !.plain = plain,
                                  !.first = Call(payload, plain, << >>)]
  /\ UNCHANGED << pc, input, tokens, cerr, base, data, how, result, blocks,
                  footer, poll >>

DecompressSecond ==
  /\ frame.kind = "trailing" /\ frame.first # NoCall /\ frame.second = NoCall
  /\ \E t \in Trails \ {<< >>} :
       frame' = [frame EXCEPT !.second = Call(frame.payload, frame.plain, t)]
  /\ UNCHANGED << pc, input, tokens, cerr, base, data, how, result, blocks,
                  footer, poll >>

NextTrailing == DecompressFirst \/ DecompressSecond

SpecTrailing == InitTrailing /\ [][NextTrailing]_vars

\* C30: gzipDecompress reads no payload byte after the end of the first
\* block with BFINAL = 1, so two streams that differ only in the bytes
\* between the end of that block and the footer give the same outcome, the
\* same output or the same error.
TrailingIgnored ==
  frame.kind = "trailing" =>
    /\ frame.first # NoCall =>
         /\ frame.first.read = Len(frame.payload)
         /\ frame.first.result.err \in {"", "CRC32 mismatch"}
    /\ frame.second # NoCall =>
         /\ frame.second.read = Len(frame.payload)
         /\ frame.second.result = frame.first.result

\* A stored block and a fixed block, followed in one call by nothing and
\* in the other by two bytes: both calls return the four bytes.
TrailingIgnoredWitness ==
  /\ frame.kind = "trailing"
  /\ Len(blocks) = 2 /\ blocks[1].type = "stored" /\ blocks[2].type = "fixed"
  /\ frame.first.trail = << >> /\ frame.second.trail = << 1, 2 >>
  /\ frame.first.result = [err |-> "", out |-> << 0, 255, 97, 97 >>]
  /\ frame.second.result = frame.first.result

\* The same with a footer made for other bytes: both calls throw.
TrailingIgnoredError ==
  /\ frame.kind = "trailing"
  /\ frame.first.trail = << >> /\ frame.second.trail = << 1, 2 >>
  /\ frame.first.result.err = "CRC32 mismatch"
  /\ frame.second.result = frame.first.result


\* ------------------------------------------------------------------------
\* The fixed Huffman tables, written and read back.  frame is
\*   what    "literal": the code of literal/length symbol `symbol` is
\*           written after `lead` bits and before the bits cont;
\*           "distance": the same for a distance symbol;
\*           "pattern": the nine bits of `symbol` are written as they are
\*   bytes   the writer's bytes; r the reader after lead bits were read and
\*           readFixedLiteral / readFixedDistance was called
\* ------------------------------------------------------------------------

MaxLead == 2
MaxCont == 2

Leads == (0..MaxLead) \cup {7}
Conts == UNION {[1..n -> {0, 1}] : n \in 0..MaxCont} \cup {[i \in 1..9 |-> 1]}

InitTables ==
  /\ pc = "start"
  /\ input = << >>
  /\ tokens = << >>
  /\ cerr = ""
  /\ base = << >>
  /\ data = << >>
  /\ how = "none"
  /\ result = NoResult
  /\ blocks = << >>
  /\ footer = NoFooter
  /\ poll = NoPoll
  /\ \E what \in {"literal", "distance", "pattern"} :
       \E symbol \in (CASE what = "literal" -> 0..287
                        [] what = "distance" -> 0..31
                        [] OTHER -> 0..511) :
         \E lead \in (IF what = "pattern" THEN {0} ELSE Leads) :
           \E cont \in (IF what = "pattern" THEN {<< >>} ELSE Conts) :
             frame = [kind |-> "tables", what |-> what, symbol |-> symbol,
                      lead |-> lead, cont |-> cont, bytes |-> << >>,
                      r |-> NewReader, via |-> "init"]

RECURSIVE WriteEach(_, _, _)
WriteEach(w, bits, i) ==
  IF i > Len(bits) THEN w ELSE WriteEach(writeBits(w, bits[i], 1), bits, i + 1)

\* The code as deflateFixed writes it: writeBits(codes[symbol], lengths[symbol]).
WriteSymbol(w, what, symbol) ==
  CASE what = "literal" ->
         writeBits(w, fixedLiteralCodes[symbol], fixedLiteralLengths[symbol])
    [] what = "distance" -> writeBits(w, fixedDistanceCodes[symbol], 5)
    [] OTHER -> writeBits(w, symbol, FIXED_LITERAL_MAX_BITS)

WriteCode ==
  /\ frame.kind = "tables" /\ frame.via = "init"
  /\ frame' = [frame EXCEPT
       !.bytes = toUint8Array(
                   WriteEach(WriteSymbol(writeBits(NewWriter, 0, frame.lead),
                                         frame.what, frame.symbol),
                             frame.cont, 1)),
       !.via = "write"]
  /\ UNCHANGED << pc, input, tokens, cerr, base, data, how, result, blocks,
                  footer, poll >>

ReadLiteral ==
  /\ frame.kind = "tables" /\ frame.via = "write" /\ frame.what # "distance"
  /\ frame' = [frame EXCEPT
       !.r = readFixedLiteral(frame.bytes,
                              readBits(frame.bytes, NewReader, frame.lead)),
       !.via = "read"]
  /\ UNCHANGED << pc, input, tokens, cerr, base, data, how, result, blocks,
                  footer, poll >>

ReadDistance ==
  /\ frame.kind = "tables" /\ frame.via = "write" /\ frame.what = "distance"
  /\ frame' = [frame EXCEPT
       !.r = readFixedDistance(frame.bytes,
                               readBits(frame.bytes, NewReader, frame.lead)),
       !.via = "read"]
  /\ UNCHANGED << pc, input, tokens, cerr, base, data, how, result, blocks,
                  footer, poll >>

NextTables == WriteCode \/ ReadLiteral \/ ReadDistance

SpecTables == InitTables /\ [][NextTables]_vars

\* The read returned the symbol and took exactly len bits.
Decoded(len) ==
  /\ frame.r.err = ""
  /\ frame.r.value = frame.symbol
  /\ BitPosition(frame.r) = frame.lead + len

\* The symbols whose code the nine bits p start with.
Starts(p) ==
  {s \in 0..287 : p % Pow2(fixedLiteralLengths[s]) = fixedLiteralCodes[s]}

\* The nine bits of frame.symbol start with the code of exactly one symbol,
\* which the read returns, and the short table agrees with the 9-bit table
\* where it is filled.
PatternDecoded ==
  LET p == frame.symbol IN
  /\ Cardinality(Starts(p)) = 1
  /\ frame.r.err = ""
  /\ frame.r.value \in Starts(p)
  /\ BitPosition(frame.r) = fixedLiteralLengths[frame.r.value]
  /\ fixedLiteralDecodeLength[p] # 0
  /\ fixedLiteralDecode[p] = frame.r.value
  /\ fixedLiteralShortLength[p % 128] # 0 =>
       /\ fixedLiteralShortDecode[p % 128] = fixedLiteralDecode[p]
       /\ fixedLiteralShortLength[p % 128] = fixedLiteralDecodeLength[p]

\* The stream holds the nine bits the reader looks at for a code the 7-bit
\* table does not hold: only an 8-bit code that fills the last byte has
\* fewer.
NineBits ==
  \/ fixedLiteralLengths[frame.symbol] # 8
  \/ 8 * Len(frame.bytes) - frame.lead >= FIXED_LITERAL_MAX_BITS

\* C27 as stated: for every literal/length symbol and every continuation,
\* reading the bits written for the symbol returns it and takes exactly its
\* code length; every 9-bit pattern decodes to exactly one symbol and the
\* short table agrees with the 9-bit table; every distance symbol decodes
\* from its 5-bit code.
TablesInverse ==
  (frame.kind = "tables" /\ frame.via = "read") =>
    CASE frame.what = "literal" -> Decoded(fixedLiteralLengths[frame.symbol])
      [] frame.what = "distance" -> Decoded(5)
      [] OTHER -> PatternDecoded

\* C27, amended: the same for every continuation that leaves nine bits in
\* the stream from the start of an 8-bit code; an 8-bit code that fills the
\* last byte of the stream is not decoded, the read throws
\* 'Unexpected end of stream'.  'Failed to decode literal/length symbol' is
\* never thrown.
TablesInverseNineBits ==
  (frame.kind = "tables" /\ frame.via = "read") =>
    /\ frame.r.err \notin {"Failed to decode literal/length symbol",
                           "Failed to decode distance symbol"}
    /\ CASE frame.what = "literal" ->
              IF NineBits THEN Decoded(fixedLiteralLengths[frame.symbol])
              ELSE frame.r.err = "Unexpected end of stream"
         [] frame.what = "distance" -> Decoded(5)
         [] OTHER -> PatternDecoded

\* The 8-bit code of symbol 280, found through the 9-bit table, before
\* nine one bits; and a 9-bit pattern the short table holds.
TablesInverseNineBitsWitness ==
  /\ frame.kind = "tables" /\ frame.via = "read"
  /\ \/ /\ frame.what = "literal" /\ frame.symbol = 280 /\ frame.lead = 0
        /\ Len(frame.cont) = 9
        /\ frame.r.value = 280 /\ BitPosition(frame.r) = 8
     \/ /\ frame.what = "pattern" /\ frame.symbol = 384
        /\ frame.r.value = 256


\* ------------------------------------------------------------------------
\* Length and distance codes, written and read back.  frame is
\*   length, distance   a match token
\*   lengthInfo, distInfo   what findLengthCode(length) and
\*            findDistanceCode(distance) returned
\*   bytes    the token as deflateFixed writes it
\*   read     what the decoder read: the length symbol, the number of extra
\*            bits and the length, and the same for the distance
\* ------------------------------------------------------------------------

NoRead == [symbol |-> -1, extra |-> -1, length |-> -1,
           distSymbol |-> -1, distExtra |-> -1, distance |-> -1, err |-> ""]

\* Every length with the nearest distance, and every distance with the
\* shortest and the longest length.
MatchPairs ==
  ((MIN_MATCH..MAX_MATCH) \X {1})
    \cup ({MIN_MATCH, MAX_MATCH} \X (1..WINDOW_SIZE))

InitCodes ==
  /\ pc = "start"
  /\ input = << >>
  /\ tokens = << >>
  /\ cerr = ""
  /\ base = << >>
  /\ data = << >>
  /\ how = "none"
  /\ result = NoResult
  /\ blocks = << >>
  /\ footer = NoFooter
  /\ poll = NoPoll
  /\ \E m \in MatchPairs :
       frame = [kind |-> "codes", length |-> m[1], distance |-> m[2],
                lengthInfo |-> NoCode, distInfo |-> NoCode, bytes |-> << >>,
                err |-> "", read |-> NoRead, via |-> "init"]

\* The body of deflateFixed's token loop for the match token.
EncodeMatch ==
  /\ frame.kind = "codes" /\ frame.via = "init"
  /\ \E r \in {EncodeToken(NewWriter, Match(frame.length, frame.distance))} :
       frame' = [frame EXCEPT !.lengthInfo = findLengthCode(frame.length),
                              !.distInfo = findDistanceCode(frame.distance),
                              !.bytes = toUint8Array(r.w),
                              !.err = r.err,
                              !.via = "write"]
  /\ UNCHANGED << pc, input, tokens, cerr, base, data, how, result, blocks,
                  footer, poll >>

\* The distance after its extra bits were read (de the reader then).
DistanceRead(rd, d, de) ==
  [rd EXCEPT !.distSymbol = d.value, !.distExtra = DIST_EXTRA[d.value + 1],
             !.distance = DIST_BASE[d.value + 1] + de.value, !.err = de.err]

\* The distance code after the length's extra bits were read.
DistanceOf(bytes, rd, d) ==
  IF d.err # "" THEN [rd EXCEPT !.err = d.err]
  ELSE IF d.value >= Len(DIST_BASE) THEN [rd EXCEPT !.distSymbol = d.value, !.err = "NaN"]
  ELSE DistanceRead(rd, d, ReadExtra(bytes, d, DIST_EXTRA[d.value + 1]))

\* The length after its extra bits were read (le the reader then).
LengthRead(bytes, s, le) ==
  IF le.err # "" THEN [NoRead EXCEPT !.symbol = s.value, !.err = le.err]
  ELSE DistanceOf(bytes,
         [NoRead EXCEPT !.symbol = s.value,
                        !.extra = LENGTH_EXTRA[s.value - 257 + 1],
                        !.length = LENGTH_BASE[s.value - 257 + 1] + le.value],
         readFixedDistance(bytes, le))

\* The decoder's pass over a length symbol, up to the copy.
LengthOf(bytes, s) ==
  IF s.err # "" THEN [NoRead EXCEPT !.err = s.err]
  ELSE IF s.value - 257 < 0 \/ s.value - 257 >= Len(LENGTH_BASE)
  THEN [NoRead EXCEPT !.symbol = s.value, !.err = "Invalid length symbol"]
  ELSE LengthRead(bytes, s, ReadExtra(bytes, s, LENGTH_EXTRA[s.value - 257 + 1]))

DecodeMatch ==
  /\ frame.kind = "codes" /\ frame.via = "write"
  /\ frame' = [frame EXCEPT
       !.read = LengthOf(frame.bytes, readFixedLiteral(frame.bytes, NewReader)),
       !.via = "read"]
  /\ UNCHANGED << pc, input, tokens, cerr, base, data, how, result, blocks,
                  footer, poll >>

NextCodes == EncodeMatch \/ DecodeMatch

SpecCodes == InitCodes /\ [][NextCodes]_vars

\* The extra value of n under info fits in info.extraBits bits.
Fits(n, info) ==
  /\ info.err = ""
  /\ n - info.base >= 0
  /\ n - info.base < Pow2(info.extraBits)

\* C28: for every length in 3..258 the code and extra bits findLengthCode
\* chooses (258 as code 285 with no extra bits) decode under LENGTH_BASE /
\* LENGTH_EXTRA to the same length, for every distance in 1..32768 the code
\* and extra bits findDistanceCode chooses decode under DIST_BASE /
\* DIST_EXTRA to the same distance, and the extra value fits in the number
\* of extra bits.
CodesRoundTrip ==
  frame.kind = "codes" =>
    /\ frame.via # "init" =>
         /\ frame.err = ""
         /\ Fits(frame.length, frame.lengthInfo)
         /\ Fits(frame.distance, frame.distInfo)
         /\ frame.length = 258 =>
              frame.lengthInfo.code = 285 /\ frame.lengthInfo.extraBits = 0
    /\ frame.via = "read" =>
         /\ frame.read.err = ""
         /\ frame.read.symbol = frame.lengthInfo.code
         /\ frame.read.extra = frame.lengthInfo.extraBits
         /\ frame.read.length = frame.length
         /\ frame.read.distSymbol = frame.distInfo.code
         /\ frame.read.distExtra = frame.distInfo.extraBits
         /\ frame.read.distance = frame.distance

\* Length 258 read back from code 285 with no extra bits and distance 32768
\* from code 29 and thirteen extra bits.
CodesRoundTripWitness ==
  /\ frame.kind = "codes" /\ frame.via = "read"
  /\ frame.length = 258 /\ frame.distance = 32768
  /\ frame.read.symbol = 285 /\ frame.read.extra = 0 /\ frame.read.length = 258
  /\ frame.read.distSymbol = 29 /\ frame.read.distExtra = 13
  /\ frame.read.distance = 32768

\* Length 257 read back from code 284 and five extra bits.
CodesRoundTripLongest ==
  /\ frame.kind = "codes" /\ frame.via = "read"
  /\ frame.length = 257 /\ frame.read.symbol = 284 /\ frame.read.extra = 5
  /\ frame.read.length = 257

=============================================================================
